---------------------------- MODULE Spec2Model ----------------------------
(***************************************************************************)
(* dtm2txt: a transcoder between the binary DTM movie container and its    *)
(* line-oriented text form.                                                *)
(*                                                                         *)
(* Conventions of this model                                               *)
(*   - a byte is a number in 0..255; a byte stream is a sequence of bytes; *)
(*   - a Rust String is the sequence of its chars (Unicode scalar values); *)
(*     as_bytes / from_utf8 are the UTF-8 conversions between the two;     *)
(*   - a Result is a record with a tag: "Ok", "Err" (with the kind of the  *)
(*     Dtm2txtError) or "Panic" (the thread unwinds, the caller gets no    *)
(*     value).                                                             *)
(***************************************************************************)
EXTENDS Integers, Sequences, FiniteSets, TLC

---------------------------------------------------------------------------
(* Bounds of the explored inputs.                                          *)

\* Most frames of a movie handed to an encoder.
MaxFrames == 2

\* Most chars a sample hex text is longer or shorter than 2 * length.
MaxLenDelta == 2

\* Most bytes a sample header string exceeds its field's width by.
MaxOver == 1

\* The most frame lines before the probe line of a text file, plus one.
MaxLines == 2

\* The size of a short read of the text stream.
ShortRead == 64

---------------------------------------------------------------------------
VARIABLES
    pc,              \* position of the running call
    origin,          \* where the decoder's input came from
    movie,           \* the Dtm handed to an encoder
    stream,          \* the container: what an encoder wrote, a decoder reads
    pos,             \* elements of stream the decoder's reader has returned
    header,          \* header fields decoded so far
    controller_data, \* frames decoded so far
    result,          \* what the decode (or encode) call returned
    lines,           \* LineCountRead.lines
    line,            \* InputReader.line
    cursor,          \* elements the line iterator has consumed
    encoded,         \* what the encode call returned
    hex,             \* the bytestring codec's operands
    frame,           \* the frame codec's operands
    original         \* the stream a re-encoded movie was decoded from

vars == <<pc, origin, movie, stream, pos, header, controller_data, result,
          lines, line, cursor, encoded, hex, frame, original>>

---------------------------------------------------------------------------
(* Sequences.                                                              *)

Min(a, b) == IF a < b THEN a ELSE b

Max(a, b) == IF a > b THEN a ELSE b

Zeros(n) == [i \in 1..n |-> 0]

Repeat(c, n) == [i \in 1..n |-> c]

\* F applied to the value of v, which is computed once.
With(v, F(_)) == CHOOSE y \in {F(x) : x \in {v}} : TRUE

Take(s, n) == SubSeq(s, 1, Min(n, Len(s)))

Drop(s, n) == SubSeq(s, n + 1, Len(s))

---------------------------------------------------------------------------
(* UTF-8: str::as_bytes and String::from_utf8.                             *)

Utf8Len(c) ==
    IF c < 128 THEN 1 ELSE IF c < 2048 THEN 2 ELSE IF c < 65536 THEN 3 ELSE 4

Utf8Encode(c) ==
    IF c < 128 THEN <<c>>
    ELSE IF c < 2048 THEN <<192 + (c \div 64), 128 + (c % 64)>>
    ELSE IF c < 65536 THEN
        <<224 + (c \div 4096), 128 + ((c \div 64) % 64), 128 + (c % 64)>>
    ELSE
        <<240 + (c \div 262144), 128 + ((c \div 4096) % 64),
          128 + ((c \div 64) % 64), 128 + (c % 64)>>

RECURSIVE as_bytes(_)
as_bytes(val) ==
    IF val = <<>> THEN <<>> ELSE Utf8Encode(Head(val)) \o as_bytes(Tail(val))

IsCont(b) == b >= 128 /\ b <= 191

RECURSIVE Utf8Decode(_, _, _)
Utf8Decode(b, i, acc) ==
    IF i > Len(b) THEN [ok |-> TRUE, val |-> acc]
    ELSE IF b[i] < 128 THEN Utf8Decode(b, i + 1, Append(acc, b[i]))
    ELSE IF b[i] >= 194 /\ b[i] <= 223 THEN
        IF i + 1 <= Len(b) /\ IsCont(b[i + 1])
        THEN Utf8Decode(b, i + 2,
                        Append(acc, (b[i] - 192) * 64 + (b[i + 1] - 128)))
        ELSE [ok |-> FALSE, val |-> <<>>]
    ELSE IF b[i] >= 224 /\ b[i] <= 239 THEN
        IF /\ i + 2 <= Len(b)
           /\ IsCont(b[i + 1])
           /\ IsCont(b[i + 2])
           /\ (b[i] = 224 => b[i + 1] >= 160)
           /\ (b[i] = 237 => b[i + 1] <= 159)
        THEN Utf8Decode(b, i + 3,
                        Append(acc, (b[i] - 224) * 4096 + (b[i + 1] - 128) * 64
                                    + (b[i + 2] - 128)))
        ELSE [ok |-> FALSE, val |-> <<>>]
    ELSE IF b[i] >= 240 /\ b[i] <= 244 THEN
        IF /\ i + 3 <= Len(b)
           /\ IsCont(b[i + 1])
           /\ IsCont(b[i + 2])
           /\ IsCont(b[i + 3])
           /\ (b[i] = 240 => b[i + 1] >= 144)
           /\ (b[i] = 244 => b[i + 1] <= 143)
        THEN Utf8Decode(b, i + 4,
                        Append(acc, (b[i] - 240) * 262144
                                    + (b[i + 1] - 128) * 4096
                                    + (b[i + 2] - 128) * 64 + (b[i + 3] - 128)))
        ELSE [ok |-> FALSE, val |-> <<>>]
    ELSE [ok |-> FALSE, val |-> <<>>]

\* The bytes decoded piece by piece: a piece ends before a byte that is not
\* a continuation byte, where no sequence can be under way.
RECURSIVE DecodeChunks(_)
DecodeChunks(b) ==
    LET cuts == {p \in ((Len(b) \div 2) + 1)..Len(b) : ~IsCont(b[p])} IN
    IF Len(b) <= 16 \/ cuts = {} THEN Utf8Decode(b, 1, <<>>)
    ELSE With(CHOOSE p \in cuts : \A q \in cuts : p <= q, LAMBDA p :
            With(DecodeChunks(SubSeq(b, 1, p - 1)), LAMBDA l :
                IF ~l.ok THEN l
                ELSE With(DecodeChunks(SubSeq(b, p, Len(b))), LAMBDA r :
                        IF ~r.ok THEN r
                        ELSE [ok |-> TRUE, val |-> l.val \o r.val])))

from_utf8(bytes) == With(bytes, LAMBDA b : DecodeChunks(b))

\* str::len: the length in bytes, not in chars.
StrLen(val) == Len(as_bytes(val))

---------------------------------------------------------------------------
(* Hex bytestring codec: the bytestring! macro of dtm.rs.                  *)

AudioEmulatorLen == 16

Md5Len == 16

Reserved2Len == 12

GitRevisionLen == 20

Reserved3Len == 11

BlobTypes == {"AudioEmulator", "Md5", "Reserved2", "GitRevision", "Reserved3"}

BlobLen(type) ==
    CASE type = "AudioEmulator" -> AudioEmulatorLen
      [] type = "Md5" -> Md5Len
      [] type = "Reserved2" -> Reserved2Len
      [] type = "GitRevision" -> GitRevisionLen
      [] type = "Reserved3" -> Reserved3Len

\* One digit of format!("{:02x}", val).
LowerHexDigit(n) == IF n < 10 THEN 48 + n ELSE 97 + (n - 10)

\* One digit of format!("{:02X}", val).
UpperHexDigit(n) == IF n < 10 THEN 48 + n ELSE 65 + (n - 10)

Format02X(val) == <<UpperHexDigit(val \div 16), UpperHexDigit(val % 16)>>

RECURSIVE serialize(_)
serialize(bytes) ==
    IF bytes = <<>> THEN <<>>
    ELSE Format02X(Head(bytes)) \o serialize(Tail(bytes))

HexOk(buffer) == [tag |-> "Ok", msg |-> "", bytes |-> buffer]

HexErr(what) == [tag |-> "Err", msg |-> what, bytes |-> <<>>]

HexPanic(what) == [tag |-> "Panic", msg |-> what, bytes |-> <<>>]

HexNone == [tag |-> "None", msg |-> "", bytes |-> <<>>]

\* A nibble parser that takes 'a'..'f' too.
NibbleAnyCase(ch) ==
    IF ch <= 70 /\ ch >= 65 THEN [ok |-> TRUE, v |-> ch - 65 + 10]
    ELSE IF ch <= 102 /\ ch >= 97 THEN [ok |-> TRUE, v |-> ch - 97 + 10]
    ELSE IF ch <= 57 /\ ch >= 48 THEN [ok |-> TRUE, v |-> ch - 48]
    ELSE [ok |-> FALSE, v |-> 0]

\* The nibble of one char: 'A'..'F' and '0'..'9' only.
Nibble(ch) ==
    IF ch <= 70 /\ ch >= 65 THEN [ok |-> TRUE, v |-> ch - 65 + 10]
    ELSE IF ch <= 57 /\ ch >= 48 THEN [ok |-> TRUE, v |-> ch - 48]
    ELSE [ok |-> FALSE, v |-> 0]

\* The while-let loop of visit_str; i is the index of the next high_char
\* and idx (0-based) the next slot of buffer.
RECURSIVE VisitLoop(_, _, _, _, _)
VisitLoop(length, value, i, idx, buffer) ==
    IF i > Len(value) THEN HexOk(buffer)
    ELSE IF i + 1 > Len(value) THEN
        HexPanic("unwrap on None")
    ELSE IF ~Nibble(value[i]).ok THEN HexErr("invalid character")
    ELSE IF ~Nibble(value[i + 1]).ok THEN HexErr("invalid character")
    ELSE IF idx >= length THEN HexPanic("index out of bounds")
    ELSE VisitLoop(length, value, i + 2, idx + 1,
                   [buffer EXCEPT ![idx + 1] =
                        (Nibble(value[i]).v * 16) + Nibble(value[i + 1]).v])

visit_str(length, value) ==
    IF StrLen(value) # length * 2 THEN HexErr("string of invalid length")
    ELSE VisitLoop(length, value, 1, 0, Zeros(length))

---------------------------------------------------------------------------
(* Results of the decode and encode calls (Dtm2txtResult).                 *)

NoDtm == [header |-> <<>>, controller_data |-> <<>>]

NoResult == [tag |-> "None", kind |-> "", line |-> 0, dtm |-> NoDtm]

Ok(dtm) == [tag |-> "Ok", kind |-> "", line |-> 0, dtm |-> dtm]

Err(kind) == [tag |-> "Err", kind |-> kind, line |-> 0, dtm |-> NoDtm]

Panic(msg) == [tag |-> "Panic", kind |-> msg, line |-> 0, dtm |-> NoDtm]

\* Dtm2txtError::ControllerInputParseError { reason, line }
ParseErr(reason, ln) == [tag |-> "Err", kind |-> reason, line |-> ln, dtm |-> NoDtm]

---------------------------------------------------------------------------
(* Reading and writing primitives of the binary form.                      *)

DTM_MAGIC == <<68, 84, 77, 26>>

\* Read::read in place of read_exact: a short read goes unnoticed and the
\* rest of the buffer keeps its zeros.
read_lenient(s, p, n) ==
    [ok |-> TRUE,
     bytes |-> SubSeq(s, p + 1, Min(p + n, Len(s)))
                 \o Zeros(n - (Min(p + n, Len(s)) - Min(p, Len(s)))),
     pos |-> Min(p + n, Len(s))]

\* Read::read_exact on the stream s at offset p: the bytes, or a short read
\* (the reader is then drained).
read_exact(s, p, n) ==
    IF p + n <= Len(s)
    THEN [ok |-> TRUE, bytes |-> SubSeq(s, p + 1, p + n), pos |-> p + n]
    ELSE [ok |-> FALSE, bytes |-> <<>>, pos |-> Len(s)]

\* Little-endian integers (byteorder's read_uN::<LE> / write_uN::<LE>).
RECURSIVE FromLE(_)
FromLE(bytes) ==
    IF bytes = <<>> THEN 0 ELSE Head(bytes) + 256 * FromLE(Tail(bytes))

RECURSIVE ToLE(_, _)
ToLE(v, n) == IF n = 0 THEN <<>> ELSE <<v % 256>> \o ToLE(v \div 256, n - 1)

\* if let in place of while let: one zero byte is popped.
StripOneZero(buffer) ==
    IF buffer # <<>> /\ buffer[Len(buffer)] = 0
    THEN SubSeq(buffer, 1, Len(buffer) - 1)
    ELSE buffer

\* while let Some(0) = buffer.last() { buffer.pop(); }
RECURSIVE StripZeros(_)
StripZeros(buffer) ==
    IF buffer # <<>> /\ buffer[Len(buffer)] = 0
    THEN StripZeros(SubSeq(buffer, 1, Len(buffer) - 1))
    ELSE buffer

\* ReadDtmExt::read_string on the bytes of one fixed-width field.
read_string(bytes) == from_utf8(StripZeros(bytes))

\* ReadDtmExt::read_bool on the byte read.
read_bool(val) == val # 0

\* A write_str that pads with spaces.
write_str_space_padded(val, len) ==
    IF Len(as_bytes(val)) > len
    THEN [tag |-> "Panic", bytes |-> <<>>]
    ELSE [tag |-> "Ok",
          bytes |-> as_bytes(val) \o Repeat(32, len - Len(as_bytes(val)))]

\* WriteDtmExt::write_str: the len bytes written, or the panic.
write_str(val, len) ==
    IF Len(as_bytes(val)) > len
    THEN [tag |-> "Panic", bytes |-> <<>>]
    ELSE [tag |-> "Ok",
          bytes |-> as_bytes(val) \o Zeros(len - Len(as_bytes(val)))]

\* A write_bool with the two bytes exchanged.
write_bool_inverted(val) == IF val THEN 0 ELSE 1

\* WriteDtmExt::write_bool
write_bool(val) == IF val THEN 1 ELSE 0

---------------------------------------------------------------------------
(* The header record: the fields in the order the code reads and writes    *)
(* them, each with its kind and its width in bytes.                        *)

FStr(name, width) == [name |-> name, kind |-> "str", width |-> width]

FBool(name) == [name |-> name, kind |-> "bool", width |-> 1]

FU8(name) == [name |-> name, kind |-> "u8", width |-> 1]

FU32(name) == [name |-> name, kind |-> "u32", width |-> 4]

FU64(name) == [name |-> name, kind |-> "u64", width |-> 8]

FBlob(name, width) == [name |-> name, kind |-> "blob", width |-> width]

\* DtmDecoder::decode_header, after the magic.
DecodeLayout ==
    << FStr("game_id", 6), FBool("wii_game"), FU8("controllers"),
       FBool("savestate"), FU64("vi_count"), FU64("input_count"),
       FU64("lag_counter"), FU64("reserved1"), FU32("rerecord_count"),
       FStr("author", 32), FStr("video_backend", 16),
       FBlob("audio_emulator", 16), FBlob("md5", 16), FU64("start_time"),
       FBool("valid_config"), FBool("idle_skipping"), FBool("dual_core"),
       FBool("progressive_scan"), FBool("dsp_hle"), FBool("fast_disc"),
       FU8("cpu_core"), FBool("efb_access"), FBool("efb_copy"),
       FBool("efb_to_texture"), FBool("efb_copy_cache"),
       FBool("emulate_format_changes"), FBool("use_xfb"),
       FBool("use_real_xfb"), FU8("memory_cards"),
       FBool("memory_card_blank"), FU8("bongos_plugged"), FBool("sync_gpu"),
       FBool("netplay"), FBool("sysconf_pal60"), FBlob("reserved2", 12),
       FStr("second_disc", 40), FBlob("git_revision", 20),
       FU32("dsp_irom_hash"), FU32("dsp_coef_hash"), FU64("tick_count"),
       FBlob("reserved3", 11) >>

\* DtmEncoder::encode_header.
EncodeLayout ==
    << FStr("game_id", 6), FBool("wii_game"), FU8("controllers"),
       FBool("savestate"), FU64("vi_count"), FU64("input_count"),
       FU64("lag_counter"), FU64("reserved1"), FU32("rerecord_count"),
       FStr("author", 32), FStr("video_backend", 16),
       FBlob("audio_emulator", 16), FBlob("md5", 16), FU64("start_time"),
       FBool("valid_config"), FBool("idle_skipping"), FBool("dual_core"),
       FBool("progressive_scan"), FBool("dsp_hle"), FBool("fast_disc"),
       FU8("cpu_core"), FBool("efb_access"), FBool("efb_copy"),
       FBool("efb_to_texture"), FBool("efb_copy_cache"),
       FBool("emulate_format_changes"), FBool("use_xfb"),
       FBool("use_real_xfb"), FU8("memory_cards"),
       FBool("memory_card_blank"), FU8("bongos_plugged"), FBool("sync_gpu"),
       FBool("netplay"), FBool("sysconf_pal60"), FBlob("reserved2", 12),
       FStr("second_disc", 40), FBlob("git_revision", 20),
       FU32("dsp_irom_hash"), FU32("dsp_coef_hash"), FU64("tick_count"),
       FBlob("reserved3", 11) >>

\* The fields of struct DtmHeader, in declaration order.
HeaderFields ==
    << FStr("game_id", 6), FBool("wii_game"), FU8("controllers"),
       FBool("savestate"), FU64("vi_count"), FU64("input_count"),
       FU64("lag_counter"), FU64("reserved1"), FU32("rerecord_count"),
       FStr("author", 32), FStr("video_backend", 16),
       FBlob("audio_emulator", AudioEmulatorLen), FBlob("md5", Md5Len),
       FU64("start_time"),
       FBool("valid_config"), FBool("idle_skipping"), FBool("dual_core"),
       FBool("progressive_scan"), FBool("dsp_hle"), FBool("fast_disc"),
       FU8("cpu_core"), FBool("efb_access"), FBool("efb_copy"),
       FBool("efb_to_texture"), FBool("efb_copy_cache"),
       FBool("emulate_format_changes"), FBool("use_xfb"),
       FBool("use_real_xfb"), FU8("memory_cards"),
       FBool("memory_card_blank"), FU8("bongos_plugged"), FBool("sync_gpu"),
       FBool("netplay"), FBool("sysconf_pal60"),
       FBlob("reserved2", Reserved2Len),
       FStr("second_disc", 40), FBlob("git_revision", GitRevisionLen),
       FU32("dsp_irom_hash"), FU32("dsp_coef_hash"), FU64("tick_count"),
       FBlob("reserved3", Reserved3Len) >>

FieldNames == {HeaderFields[i].name : i \in DOMAIN HeaderFields}

StrFields == {i \in DOMAIN HeaderFields : HeaderFields[i].kind = "str"}

\* One field read of decode_header at offset p of the stream s.
DecodeField(f, s, p) ==
    LET r == read_exact(s, p, f.width) IN
    IF ~r.ok THEN [tag |-> "Err", kind |-> "IoError", val |-> 0, pos |-> r.pos]
    ELSE CASE f.kind = "str" ->
                IF read_string(r.bytes).ok
                THEN [tag |-> "Ok", kind |-> "", pos |-> r.pos,
                      val |-> read_string(r.bytes).val]
                ELSE [tag |-> "Err", kind |-> "FromUtf8Error", val |-> 0,
                      pos |-> r.pos]
           [] f.kind = "bool" ->
                [tag |-> "Ok", kind |-> "", pos |-> r.pos,
                 val |-> read_bool(r.bytes[1])]
           [] f.kind = "blob" ->
                [tag |-> "Ok", kind |-> "", pos |-> r.pos, val |-> r.bytes]
           [] OTHER ->
                [tag |-> "Ok", kind |-> "", pos |-> r.pos,
                 val |-> FromLE(r.bytes)]

\* A field write that leaves an empty string out of the record.
EncodeFieldOmittingEmpty(f, val) ==
    CASE f.kind = "str" ->
            IF val = <<>> THEN [tag |-> "Ok", bytes |-> <<>>]
            ELSE write_str(val, f.width)
      [] f.kind = "bool" -> [tag |-> "Ok", bytes |-> <<write_bool(val)>>]
      [] f.kind = "blob" -> [tag |-> "Ok", bytes |-> val]
      [] OTHER -> [tag |-> "Ok", bytes |-> ToLE(val, f.width)]

\* One field write of encode_header.
EncodeField(f, val) ==
    CASE f.kind = "str" -> write_str(val, f.width)
      [] f.kind = "bool" -> [tag |-> "Ok", bytes |-> <<write_bool(val)>>]
      [] f.kind = "blob" -> [tag |-> "Ok", bytes |-> val]
      [] OTHER -> [tag |-> "Ok", bytes |-> ToLE(val, f.width)]

\* encode_header from field i on: what reaches the sink, and how it ended.
RECURSIVE EncodeFields(_, _, _)
EncodeFields(hdr, i, out) ==
    IF i > Len(EncodeLayout) THEN [tag |-> "Ok", bytes |-> out]
    ELSE IF EncodeField(EncodeLayout[i], hdr[EncodeLayout[i].name]).tag = "Ok"
    THEN EncodeFields(hdr, i + 1,
             out \o EncodeField(EncodeLayout[i], hdr[EncodeLayout[i].name]).bytes)
    ELSE [tag |-> "Panic", bytes |-> out]

encode_header(hdr) == EncodeFields(hdr, 1, <<>>)

---------------------------------------------------------------------------
(* Controller frames, binary form.                                         *)

START_MASK == 1

A_MASK == 2

B_MASK == 4

X_MASK == 8

Y_MASK == 16

Z_MASK == 32

UP_MASK == 64

DOWN_MASK == 128

LEFT_MASK == 1

RIGHT_MASK == 2

L_MASK == 4

R_MASK == 8

CHANGE_DISC_MASK == 16

RESET_MASK == 32

CONTROLLER_CONNECTED_MASK == 64

RESERVED_MASK == 128

\* A test that compares the byte with the mask instead of masking it.
MaskedByOrder(byte, mask) == byte >= mask

\* byte & mask != 0, for a one-bit mask.
Masked(byte, mask) == (byte \div mask) % 2 = 1

\* DtmDecoder::decode_controller_input on the 8 bytes of one record.
decode_controller_input(b) ==
    [ start |-> Masked(b[1], START_MASK),
      a |-> Masked(b[1], A_MASK),
      b |-> Masked(b[1], B_MASK),
      x |-> Masked(b[1], X_MASK),
      y |-> Masked(b[1], Y_MASK),
      z |-> Masked(b[1], Z_MASK),
      up |-> Masked(b[1], UP_MASK),
      down |-> Masked(b[1], DOWN_MASK),
      left |-> Masked(b[2], LEFT_MASK),
      right |-> Masked(b[2], RIGHT_MASK),
      l |-> Masked(b[2], L_MASK),
      r |-> Masked(b[2], R_MASK),
      change_disc |-> Masked(b[2], CHANGE_DISC_MASK),
      reset |-> Masked(b[2], RESET_MASK),
      controller_connected |-> Masked(b[2], CONTROLLER_CONNECTED_MASK),
      reserved |-> Masked(b[2], RESERVED_MASK),
      l_pressure |-> b[3],
      r_pressure |-> b[4],
      analog_x |-> b[5],
      analog_y |-> b[6],
      c_x |-> b[7],
      c_y |-> b[8] ]

\* (flag as u8) << n
Shl(flag, n) == IF flag THEN 2 ^ n ELSE 0

\* A packing that leaves the reserved bit clear.
EncodeReservedClear(input) ==
    << Shl(input.start, 0) + Shl(input.a, 1) + Shl(input.b, 2)
         + Shl(input.x, 3) + Shl(input.y, 4) + Shl(input.z, 5)
         + Shl(input.up, 6) + Shl(input.down, 7),
       Shl(input.left, 0) + Shl(input.right, 1) + Shl(input.l, 2)
         + Shl(input.r, 3) + Shl(input.change_disc, 4) + Shl(input.reset, 5)
         + Shl(input.controller_connected, 6),
       input.l_pressure, input.r_pressure, input.analog_x, input.analog_y,
       input.c_x, input.c_y >>

\* DtmEncoder::encode_controller_input: the 8 bytes written.
encode_controller_input(input) ==
    << Shl(input.start, 0) + Shl(input.a, 1) + Shl(input.b, 2)
         + Shl(input.x, 3) + Shl(input.y, 4) + Shl(input.z, 5)
         + Shl(input.up, 6) + Shl(input.down, 7),
       Shl(input.left, 0) + Shl(input.right, 1) + Shl(input.l, 2)
         + Shl(input.r, 3) + Shl(input.change_disc, 4) + Shl(input.reset, 5)
         + Shl(input.controller_connected, 6) + Shl(input.reserved, 7),
       input.l_pressure, input.r_pressure, input.analog_x, input.analog_y,
       input.c_x, input.c_y >>

RECURSIVE EncodeFrames(_)
EncodeFrames(frames) ==
    IF frames = <<>> THEN <<>>
    ELSE encode_controller_input(Head(frames)) \o EncodeFrames(Tail(frames))

\* DtmEncoder::encode: the bytes that reach the sink, and how the call ended.
DtmEncode(dtm) ==
    IF encode_header(dtm.header).tag = "Ok"
    THEN [tag |-> "Ok",
          bytes |-> DTM_MAGIC \o encode_header(dtm.header).bytes
                      \o EncodeFrames(dtm.controller_data)]
    ELSE [tag |-> "Panic",
          bytes |-> DTM_MAGIC \o encode_header(dtm.header).bytes]

---------------------------------------------------------------------------
(* DtmDecoder::decode, step by step.                                       *)

\* A check of the first byte of the magic only.
CheckFirstByte(magic_buffer) ==
    IF magic_buffer[1] # DTM_MAGIC[1] THEN Panic("Bad magic value") ELSE NoResult

\* The magic comparison of decode_header.
CheckMagic(magic_buffer) ==
    IF magic_buffer # DTM_MAGIC THEN Panic("Bad magic value") ELSE NoResult

\* The Dtm a successful decode returns.
MakeDtm(hdr, frames) == Ok([header |-> hdr, controller_data |-> frames])

\* The header field the next read of decode_header fills.
NextField == DecodeLayout[Cardinality(DOMAIN header) + 1]

TextVarsUnchanged == UNCHANGED <<lines, line, cursor, hex, frame, original>>

DtmEncoderEncode ==
    /\ pc = "encode"
    /\ stream' = DtmEncode(movie).bytes
    /\ encoded' = IF DtmEncode(movie).tag = "Ok"
                  THEN Ok(NoDtm) ELSE Panic("String too long.")
    /\ pc' = IF DtmEncode(movie).tag = "Ok" THEN "magic" ELSE "done"
    /\ UNCHANGED <<origin, movie, pos, header, controller_data, result>>
    /\ TextVarsUnchanged

DtmDecodeMagic ==
    /\ pc = "magic"
    /\ LET r == read_exact(stream, pos, 4) IN
        /\ pos' = r.pos
        /\ result' = IF ~r.ok THEN Err("IoError") ELSE CheckMagic(r.bytes)
        /\ pc' = IF r.ok /\ CheckMagic(r.bytes).tag = "None"
                 THEN "field" ELSE "done"
    /\ UNCHANGED <<origin, movie, stream, header, controller_data, encoded>>
    /\ TextVarsUnchanged

DtmDecodeField ==
    /\ pc = "field"
    /\ LET d == DecodeField(NextField, stream, pos) IN
        /\ pos' = d.pos
        /\ IF d.tag = "Ok"
           THEN /\ header' = header @@ (NextField.name :> d.val)
                /\ result' = result
                /\ pc' = IF Cardinality(DOMAIN header) + 1 = Len(DecodeLayout)
                         THEN "frames" ELSE "field"
           ELSE /\ header' = header
                /\ result' = Err(d.kind)
                /\ pc' = "done"
    /\ UNCHANGED <<origin, movie, stream, controller_data, encoded>>
    /\ TextVarsUnchanged

\* One turn of the loop for _ in 0..header.input_count.
DtmDecodeFrame ==
    /\ pc = "frames"
    /\ Len(controller_data) < header.input_count
    /\ LET r == read_exact(stream, pos, 8) IN
        /\ pos' = r.pos
        /\ IF r.ok
           THEN /\ controller_data' =
                      Append(controller_data, decode_controller_input(r.bytes))
                /\ UNCHANGED <<result, pc>>
           ELSE /\ result' = Err("IoError")
                /\ pc' = "done"
                /\ UNCHANGED controller_data
    /\ UNCHANGED <<origin, movie, stream, header, encoded>>
    /\ TextVarsUnchanged

\* A decode that also returns what it has once the stream is exhausted.
DtmDecodeReturnAtEof ==
    /\ pc = "frames"
    /\ Len(controller_data) >= header.input_count \/ pos = Len(stream)
    /\ result' = MakeDtm(header, controller_data)
    /\ pc' = "done"
    /\ UNCHANGED <<origin, movie, stream, pos, header, controller_data, encoded>>
    /\ TextVarsUnchanged

DtmDecodeReturn ==
    /\ pc = "frames"
    /\ Len(controller_data) >= header.input_count
    /\ result' = MakeDtm(header, controller_data)
    /\ pc' = "done"
    /\ UNCHANGED <<origin, movie, stream, pos, header, controller_data, encoded>>
    /\ TextVarsUnchanged

---------------------------------------------------------------------------
(* Inputs of the binary transcoder.                                        *)

Patch(s, i, v) == [s EXCEPT ![i] = v]

BlobOf(n, b0) == [i \in 1..n |-> (b0 + i) % 256]

DefaultHeader ==
    [ game_id |-> <<71, 65, 76, 69, 48, 49>>,
      wii_game |-> FALSE, controllers |-> 1, savestate |-> FALSE,
      vi_count |-> 1000, input_count |-> 0, lag_counter |-> 7,
      reserved1 |-> 0, rerecord_count |-> 123456,
      author |-> <<79, 110, 86, 97, 114>>,
      video_backend |-> <<79, 71, 76>>,
      audio_emulator |-> BlobOf(AudioEmulatorLen, 64),
      md5 |-> BlobOf(Md5Len, 150),
      start_time |-> 2147483647,
      valid_config |-> TRUE, idle_skipping |-> FALSE, dual_core |-> TRUE,
      progressive_scan |-> FALSE, dsp_hle |-> TRUE, fast_disc |-> FALSE,
      cpu_core |-> 2, efb_access |-> TRUE, efb_copy |-> FALSE,
      efb_to_texture |-> TRUE, efb_copy_cache |-> FALSE,
      emulate_format_changes |-> TRUE, use_xfb |-> FALSE,
      use_real_xfb |-> TRUE, memory_cards |-> 3,
      memory_card_blank |-> FALSE, bongos_plugged |-> 255,
      sync_gpu |-> TRUE, netplay |-> FALSE, sysconf_pal60 |-> TRUE,
      reserved2 |-> Zeros(Reserved2Len),
      second_disc |-> <<>>,
      git_revision |-> BlobOf(GitRevisionLen, 245),
      dsp_irom_hash |-> 65535, dsp_coef_hash |-> 16777216,
      tick_count |-> 86400, reserved3 |-> BlobOf(Reserved3Len, 9) ]

\* Sample contents of a string field of the given width: empty, filling
\* the field, too long, ending in or holding a NUL char, multi-byte chars
\* that fit, and multi-byte chars that fit in chars but not in bytes.
StrVariants(width) ==
    { <<>>, Repeat(65, width), <<65, 0>>, <<65, 0, 66>>, <<233, 8364>>,
      Repeat(233, (width \div 2) + 1) }
    \cup { Repeat(65, width + d) : d \in 1..MaxOver }

HeaderSamples ==
    UNION { { [DefaultHeader EXCEPT ![HeaderFields[i].name] = v] :
                v \in StrVariants(HeaderFields[i].width) } : i \in StrFields }

NoButtons ==
    [ start |-> FALSE, a |-> FALSE, b |-> FALSE, x |-> FALSE, y |-> FALSE,
      z |-> FALSE, up |-> FALSE, down |-> FALSE, left |-> FALSE,
      right |-> FALSE, l |-> FALSE, r |-> FALSE, change_disc |-> FALSE,
      reset |-> FALSE, controller_connected |-> FALSE, reserved |-> FALSE,
      l_pressure |-> 0, r_pressure |-> 0, analog_x |-> 0, analog_y |-> 0,
      c_x |-> 0, c_y |-> 0 ]

AllButtons ==
    [ start |-> TRUE, a |-> TRUE, b |-> TRUE, x |-> TRUE, y |-> TRUE,
      z |-> TRUE, up |-> TRUE, down |-> TRUE, left |-> TRUE,
      right |-> TRUE, l |-> TRUE, r |-> TRUE, change_disc |-> TRUE,
      reset |-> TRUE, controller_connected |-> TRUE, reserved |-> TRUE,
      l_pressure |-> 255, r_pressure |-> 255, analog_x |-> 255,
      analog_y |-> 255, c_x |-> 255, c_y |-> 255 ]

MixedButtons ==
    [ start |-> TRUE, a |-> FALSE, b |-> TRUE, x |-> FALSE, y |-> TRUE,
      z |-> FALSE, up |-> TRUE, down |-> FALSE, left |-> TRUE,
      right |-> FALSE, l |-> TRUE, r |-> FALSE, change_disc |-> TRUE,
      reset |-> FALSE, controller_connected |-> FALSE, reserved |-> FALSE,
      l_pressure |-> 5, r_pressure |-> 10, analog_x |-> 128,
      analog_y |-> 130, c_x |-> 0, c_y |-> 255 ]

FrameSamples == {NoButtons, AllButtons, MixedButtons}

FrameSeqs == UNION {[1..n -> FrameSamples] : n \in 0..MaxFrames}

\* Movies handed to DtmEncoder::encode: every sample header with zero and
\* one frame, and every frame sequence under every declared input_count.
MovieSamples ==
    { [header |-> [h EXCEPT !.input_count = Len(fr)], controller_data |-> fr] :
        h \in HeaderSamples, fr \in {<<>>, <<MixedButtons>>} }
    \cup
    { [header |-> [DefaultHeader EXCEPT !.input_count = c],
       controller_data |-> fr] :
        c \in 0..(MaxFrames + 1), fr \in FrameSeqs }

\* A well-formed file of two frames.
BaseStream ==
    DtmEncode([header |-> [DefaultHeader EXCEPT !.input_count = 2],
               controller_data |-> <<MixedButtons, AllButtons>>]).bytes

\* Index in the file of the first byte of header field i.
RECURSIVE FieldStart(_)
FieldStart(i) ==
    IF i = 1 THEN Len(DTM_MAGIC) + 1
    ELSE FieldStart(i - 1) + DecodeLayout[i - 1].width

\* Files with a string field that is not UTF-8.
BadUtf8Streams ==
    { Patch(BaseStream, FieldStart(i), 255) : i \in StrFields }

\* Files handed to DtmDecoder::decode that no encoder of this program
\* wrote: cut short anywhere, with a wrong or short magic, with a string
\* field that is not UTF-8 (whole or cut short), with a boolean byte
\* other than 0 and 1, with bytes after the last declared frame.
RawStreams ==
    { Take(BaseStream, t) : t \in 0..Len(BaseStream) }
    \cup { Patch(BaseStream, i, v) : i \in 1..4, v \in {0, 255} }
    \cup { Take(Patch(BaseStream, i, 0), t) : i \in 1..4, t \in 4..8 }
    \cup { Take(s, t) : s \in BadUtf8Streams, t \in 4..Len(BaseStream) }
    \cup { Patch(BaseStream, FieldStart(2), v) : v \in {2, 255} }
    \cup { BaseStream \o tail : tail \in {<<0>>, <<1, 2, 3, 4, 5, 6, 7, 8>>} }

---------------------------------------------------------------------------
(* The binary transcoder: a movie is encoded and the bytes decoded, or a   *)
(* file is decoded.                                                        *)

NoHex == [type |-> "", bytes |-> <<>>, text |-> <<>>, out |-> HexNone,
          again |-> <<>>]

\* The frame codec has been given nothing.
NoFrame ==
    [ input |-> NoButtons, bytes |-> <<>>, unpacked |-> NoButtons,
      again |-> <<>>, tokens |-> <<>>, text |-> <<>>,
      parsed |-> [tag |-> "", kind |-> "", frame |-> <<>>, line |-> 0] ]

InitDecoder ==
    /\ pos = 0
    /\ header = <<>>
    /\ controller_data = <<>>
    /\ result = NoResult
    /\ encoded = NoResult
    /\ lines = 0
    /\ line = 0
    /\ cursor = 0
    /\ original = <<>>

InitMovie ==
    /\ pc = "encode"
    /\ origin = "movie"
    /\ movie \in MovieSamples
    /\ stream = <<>>
    /\ hex = NoHex
    /\ frame = NoFrame
    /\ InitDecoder

InitFile ==
    /\ pc = "magic"
    /\ origin = "file"
    /\ movie = NoDtm
    /\ stream \in RawStreams
    /\ hex = NoHex
    /\ frame = NoFrame
    /\ InitDecoder

Init == InitMovie \/ InitFile

Next ==
    \/ DtmEncoderEncode
    \/ DtmDecodeMagic
    \/ DtmDecodeField
    \/ DtmDecodeFrame
    \/ DtmDecodeReturn

Spec == Init /\ [][Next]_vars

---------------------------------------------------------------------------
(* Claims about the binary transcoder (specification Spec).                *)

\* Every header string fits its fixed width, in bytes.
StringsFit(m) ==
    \A i \in StrFields :
        StrLen(m.header[HeaderFields[i].name]) <= HeaderFields[i].width

\* No header string ends in a NUL char.
NoTrailingNul(m) ==
    \A i \in StrFields :
        LET v == m.header[HeaderFields[i].name] IN
        v = <<>> \/ v[Len(v)] # 0

\* Offset of the end of the header record in a file.
HeaderEnd == FieldStart(Len(DecodeLayout)) + DecodeLayout[Len(DecodeLayout)].width - 1

HasMagic(s) == Len(s) >= 4 /\ SubSeq(s, 1, 4) = <<68, 84, 77, 26>>

\* The input_count a complete header declares.
DeclaredCount(s) == FromLE(SubSeq(s, FieldStart(6), FieldStart(6) + 7))

\* The file ends before the header and the frames it declares.
Truncated(s) ==
    \/ Len(s) < HeaderEnd
    \/ Len(s) < HeaderEnd + 8 * DeclaredCount(s)

\* Some string field lies wholly in the file and, its trailing zero bytes
\* dropped, is not UTF-8.
HasBadString(s) ==
    \E i \in StrFields :
        /\ FieldStart(i) + DecodeLayout[i].width - 1 <= Len(s)
        /\ ~from_utf8(StripZeros(SubSeq(s, FieldStart(i),
                         FieldStart(i) + DecodeLayout[i].width - 1))).ok

DecodeDone == pc = "done" /\ encoded.tag # "Panic"

\* C1 as stated: for every Movie whose header strings fit their widths,
\* decoding the bytes DtmEncoder::encode wrote succeeds and returns a Movie
\* equal to the original.
C1_RoundTripWhenStringsFit ==
    (origin = "movie" /\ pc = "done" /\ StringsFit(movie)) =>
        /\ encoded.tag = "Ok"
        /\ result.tag = "Ok"
        /\ result.dtm.header = movie.header
        /\ result.dtm.controller_data = movie.controller_data

\* C1 amended: the round trip holds for every Movie whose header strings
\* fit their widths and do not end in a NUL char, and whose
\* header.input_count equals its number of frames.
C1_RoundTrip ==
    ( /\ origin = "movie"
      /\ pc = "done"
      /\ StringsFit(movie)
      /\ NoTrailingNul(movie)
      /\ movie.header.input_count = Len(movie.controller_data) ) =>
        /\ encoded.tag = "Ok"
        /\ result.tag = "Ok"
        /\ result.dtm.header = movie.header
        /\ result.dtm.controller_data = movie.controller_data

C1_Witness ==
    /\ origin = "movie"
    /\ pc = "done"
    /\ StringsFit(movie)
    /\ NoTrailingNul(movie)
    /\ movie.header.input_count = Len(movie.controller_data)
    /\ Len(movie.controller_data) >= 2
    /\ result.tag = "Ok"

\* C3: a file of at least 4 bytes whose first 4 bytes are not the magic
\* makes DtmDecoder::decode return an Err value, not panic.
C3_BadMagicIsErr ==
    (DecodeDone /\ Len(stream) >= 4 /\ ~HasMagic(stream)) =>
        result.tag = "Err"

\* C5: a header string longer than its fixed width makes
\* DtmEncoder::encode return an Err value, not panic.
C5_StringTooLongIsErr ==
    (origin = "movie" /\ pc # "encode" /\ ~StringsFit(movie)) =>
        encoded.tag = "Err"

\* C6 as stated: a file with the right magic that ends before the header
\* and the declared frames makes DtmDecoder::decode return Err(IoError).
C6_ShortReadIsIoError ==
    (DecodeDone /\ HasMagic(stream) /\ Truncated(stream)) =>
        (result.tag = "Err" /\ result.kind = "IoError")

\* C6 amended: such a file makes DtmDecoder::decode return an Err and no
\* Movie; the error is FromUtf8Error when a string field lying wholly in
\* the file is not UTF-8, and IoError otherwise.
C6_ShortReadIsErr ==
    (DecodeDone /\ HasMagic(stream) /\ Truncated(stream)) =>
        /\ result.tag = "Err"
        /\ result.kind =
             IF HasBadString(stream) THEN "FromUtf8Error" ELSE "IoError"

C6_Witness ==
    /\ DecodeDone
    /\ origin = "file"
    /\ HasMagic(stream)
    /\ Truncated(stream)
    /\ Len(stream) > HeaderEnd + 8
    /\ Len(controller_data) = 1
    /\ result.tag = "Err"
    /\ result.kind = "IoError"

\* The widths of a layout's fields from field i on, added up.
RECURSIVE SumWidths(_, _)
SumWidths(layout, i) ==
    IF i > Len(layout) THEN 0 ELSE layout[i].width + SumWidths(layout, i + 1)

\* The bytes of the record before field i of encode_header.
WidthsBefore(i) == SumWidths(EncodeLayout, 1) - SumWidths(EncodeLayout, i)

\* DtmEncoder::encode has returned Ok; stream holds what it wrote.
EncodeDone == origin = "movie" /\ encoded.tag = "Ok"

\* Frame k of the movie lies in the 8 bytes after offset at + 8 * (k - 1).
FramesAt(at) ==
    \A k \in 1..Len(movie.controller_data) :
        /\ at + 8 * k <= Len(stream)
        /\ SubSeq(stream, at + 8 * (k - 1) + 1, at + 8 * k)
              = encode_controller_input(movie.controller_data[k])

\* C12 as stated: the header record is 248 bytes, so the output is
\* 4 + 248 + 8n bytes and the first frame record starts at offset 252.
C12_LayoutLength248 ==
    EncodeDone =>
        /\ Len(stream) = 4 + 248 + 8 * Len(movie.controller_data)
        /\ FramesAt(252)

\* C12 amended: the magic, then a header record of 252 bytes in which
\* every field takes its full width at its cumulative offset (twenty
\* 1-byte fields lie between start_time and reserved2), then 8 bytes per
\* frame: 4 + 252 + 8n bytes, the first frame record at offset 256.
C12_LayoutLength ==
    EncodeDone =>
        /\ SubSeq(stream, 1, 4) = DTM_MAGIC
        /\ SumWidths(EncodeLayout, 1) = 252
        /\ Cardinality({i \in 15..34 : EncodeLayout[i].width = 1}) = 20
        /\ EncodeLayout[14].name = "start_time"
        /\ EncodeLayout[35].name = "reserved2"
        /\ \A i \in 1..Len(EncodeLayout) :
              SubSeq(stream, 4 + WidthsBefore(i) + 1,
                     4 + WidthsBefore(i) + EncodeLayout[i].width)
                = EncodeField(EncodeLayout[i],
                              movie.header[EncodeLayout[i].name]).bytes
        /\ Len(stream) = 4 + 252 + 8 * Len(movie.controller_data)
        /\ FramesAt(256)

\* A movie with frames and an empty second_disc has been encoded.
C12_Witness ==
    /\ EncodeDone
    /\ Len(movie.controller_data) = MaxFrames
    /\ movie.header.second_disc = <<>>
    /\ Len(stream) = 256 + 8 * MaxFrames

\* Header string field i of the movie has been written and read back.
StrReadBack(i) ==
    /\ origin = "movie"
    /\ encoded.tag = "Ok"
    /\ HeaderFields[i].name \in DOMAIN header

\* The bytes of header field i in the file.
FieldBytes(i) ==
    SubSeq(stream, 4 + WidthsBefore(i) + 1,
           4 + WidthsBefore(i) + EncodeLayout[i].width)

\* write_str wrote s and zero bytes up to the width, and read_string gave
\* s back.
StrRoundTrip(i) ==
    LET s == movie.header[HeaderFields[i].name]
        w == HeaderFields[i].width
    IN /\ FieldBytes(i) = as_bytes(s) \o Zeros(w - StrLen(s))
       /\ Len(FieldBytes(i)) = w
       /\ header[HeaderFields[i].name] = s

StrWidths ==
    {<<HeaderFields[i].name, HeaderFields[i].width>> : i \in StrFields}
    = { <<"game_id", 6>>, <<"author", 32>>, <<"video_backend", 16>>,
        <<"second_disc", 40>> }

\* C19 as stated: every header string of at most its width in bytes, written
\* by write_str and read back by read_string, comes back as it was.
C19_StringRoundTripUpToWidth ==
    \A i \in StrFields :
        (StrReadBack(i)
         /\ StrLen(movie.header[HeaderFields[i].name]) <= HeaderFields[i].width)
        => StrRoundTrip(i)

\* C19 amended: every header string of at most its width in bytes that does
\* not end in a NUL char comes back as it was; one that ends in NUL chars
\* comes back without them.
C19_StringRoundTrip ==
    /\ StrWidths
    /\ \A i \in StrFields :
        LET s == movie.header[HeaderFields[i].name] IN
        (StrReadBack(i) /\ StrLen(s) <= HeaderFields[i].width) =>
            IF s = <<>> \/ s[Len(s)] # 0
            THEN StrRoundTrip(i)
            ELSE /\ FieldBytes(i) = as_bytes(s) \o Zeros(HeaderFields[i].width - StrLen(s))
                 /\ header[HeaderFields[i].name] = StripZeros(s)

C19_Witness ==
    /\ StrReadBack(36)
    /\ movie.header.second_disc = Repeat(65, 40)
    /\ header.second_disc = Repeat(65, 40)
    /\ movie.header.game_id # <<>>
    /\ header.game_id = movie.header.game_id

\* C21: the 4 magic bytes are read and compared with 44 54 4D 1A before
\* any header field is read; when they differ, no byte beyond the first 4
\* is read and no field or frame is decoded.
C21_MagicFirst ==
    /\ pc = "magic" => pos = 0 /\ DOMAIN header = {} /\ controller_data = <<>>
    /\ (origin = "file" /\ pc # "magic" /\ Len(stream) >= 4) =>
        IF SubSeq(stream, 1, 4) = <<68, 84, 77, 26>>
        THEN pos >= 4 /\ result.kind # "Bad magic value"
        ELSE /\ pos = 4
             /\ pc = "done"
             /\ DOMAIN header = {}
             /\ controller_data = <<>>
             /\ result.tag # "Ok"

C21_Witness ==
    /\ origin = "file"
    /\ pc = "done"
    /\ Len(stream) > 4
    /\ SubSeq(stream, 1, 3) = <<68, 84, 77>>
    /\ stream[4] # 26
    /\ pos = 4
    /\ DOMAIN header = {}
    /\ result.tag = "Panic"

\* The 8 bytes of write_u64::<LE> for a count below 256.
CountBytes(c) == <<c, 0, 0, 0, 0, 0, 0, 0>>

\* C23: for a movie whose header declares c inputs and that has n frames,
\* encode writes c into the header (8 bytes at offset 21) and all n frame
\* records; decode of those bytes returns the header with c and exactly the
\* first c frames when c <= n, leaving the other 8 * (n - c) bytes unread,
\* and returns an I/O error and no movie when c > n.
C23_CountTrusted ==
    LET c == movie.header.input_count
        n == Len(movie.controller_data)
    IN /\ EncodeDone =>
            /\ SubSeq(stream, 22, 29) = CountBytes(c)
            /\ Len(stream) = 256 + 8 * n
            /\ FramesAt(256)
       /\ (EncodeDone /\ pc = "frames") =>
            /\ header.input_count = c
            /\ Len(controller_data) <= c
            /\ controller_data = SubSeq(movie.controller_data, 1, Len(controller_data))
       /\ (EncodeDone /\ pc = "done") =>
            IF c <= n
            THEN /\ result.tag = "Ok"
                 /\ result.dtm.header.input_count = c
                 /\ result.dtm.controller_data = SubSeq(movie.controller_data, 1, c)
                 /\ pos = 256 + 8 * c
                 /\ Len(stream) - pos = 8 * (n - c)
            ELSE /\ result = Err("IoError")
                 /\ result.dtm = NoDtm
                 /\ Len(controller_data) = n

\* Two frames were written under a declared count of one, and one came back.
C23_Witness ==
    /\ EncodeDone
    /\ pc = "done"
    /\ movie.header.input_count = 1
    /\ Len(movie.controller_data) = 2
    /\ movie.controller_data[1] # movie.controller_data[2]
    /\ result.tag = "Ok"
    /\ result.dtm.controller_data = <<movie.controller_data[1]>>
    /\ pos = Len(stream) - 8

---------------------------------------------------------------------------
(* Decoding a file, encoding the movie it gave, and decoding and encoding  *)
(* that again.                                                             *)

\* The header fields whose every byte value decodes to a value of the model.
PatchedFields == {i \in DOMAIN DecodeLayout : DecodeLayout[i].kind \in {"str", "bool", "u8", "blob"}}

\* Files that no encoder of this program wrote: the raw files, files with
\* another first or last byte in a string, boolean, u8 or blob field, with
\* another byte in a frame record, and with a lower declared input_count.
ReencodeStreams ==
    RawStreams
    \cup { Patch(BaseStream, FieldStart(i), v) : i \in PatchedFields, v \in {0, 2, 255} }
    \cup { Patch(BaseStream, FieldStart(i) + DecodeLayout[i].width - 1, v) : i \in PatchedFields, v \in {0, 65} }
    \cup { Patch(BaseStream, i, v) : i \in (HeaderEnd + 1)..Len(BaseStream), v \in {128, 255} }
    \cup { Patch(BaseStream, FieldStart(6), c) : c \in {0, 1} }

InitReencodeFile ==
    /\ pc = "magic"
    /\ origin = "file"
    /\ movie = NoDtm
    /\ stream \in ReencodeStreams
    /\ hex = NoHex
    /\ frame = NoFrame
    /\ InitDecoder

InitReencode == InitMovie \/ InitReencodeFile

\* DtmEncoder::encode on the Dtm a decode returned; the bytes it writes
\* are then decoded in their turn.
DtmReencode ==
    /\ pc = "done"
    /\ origin \in {"movie", "file", "again"}
    /\ result.tag = "Ok"
    /\ original' = stream
    /\ movie' = result.dtm
    /\ stream' = DtmEncode(result.dtm).bytes
    /\ encoded' = IF DtmEncode(result.dtm).tag = "Ok"
                  THEN Ok(NoDtm) ELSE Panic("String too long.")
    /\ pc' = IF DtmEncode(result.dtm).tag = "Ok" THEN "magic" ELSE "done"
    /\ origin' = IF origin = "again" THEN "twice" ELSE "again"
    /\ pos' = 0
    /\ header' = <<>>
    /\ controller_data' = <<>>
    /\ result' = NoResult
    /\ UNCHANGED <<lines, line, cursor, hex, frame>>

NextReencode ==
    \/ DtmEncoderEncode
    \/ DtmDecodeMagic
    \/ DtmDecodeField
    \/ DtmDecodeFrame
    \/ DtmDecodeReturn
    \/ DtmReencode

SpecReencode == InitReencode /\ [][NextReencode]_vars

\* The offsets in the file of the boolean header fields.
BoolOffsets == {FieldStart(i) : i \in {j \in DOMAIN DecodeLayout : DecodeLayout[j].kind = "bool"}}

\* C25: the movie a successful decode returned is encoded without a
\* string-too-long failure; decoding the bytes written succeeds and gives
\* that movie again; and encoding that gives the same bytes. The bytes
\* hold 0 or 1 in every boolean field and end with the last declared frame.
C25_ReencodeStable ==
    /\ origin \in {"again", "twice"} =>
        /\ encoded.tag = "Ok"
        /\ result.tag \in {"None", "Ok"}
        /\ Len(stream) = 256 + 8 * movie.header.input_count
        /\ Len(movie.controller_data) = movie.header.input_count
        /\ \A i \in BoolOffsets : stream[i] \in {0, 1}
        /\ \A i \in BoolOffsets : stream[i] = 1 <=> original[i] # 0
        /\ Len(original) >= Len(stream)
        /\ pc = "done" =>
            /\ result.tag = "Ok"
            /\ result.dtm = movie
            /\ pos = Len(stream)
    /\ origin = "twice" => stream = original

\* A file with the byte 2 in a boolean field has been decoded, encoded and
\* decoded again.
C25_Witness ==
    /\ origin = "again"
    /\ pc = "done"
    /\ result.tag = "Ok"
    /\ result.dtm = movie
    /\ original[FieldStart(2)] = 2
    /\ stream[FieldStart(2)] = 1
    /\ movie.header.wii_game
    /\ Len(original) = Len(stream)

---------------------------------------------------------------------------
(* The text form, written: serde_json::to_writer_pretty on the header,     *)
(* then one line per frame.                                                *)

\* The chars of each field's name, the key serde derives for it.
FieldKey ==
    [ game_id |->
        <<103, 97, 109, 101, 95, 105, 100>>,
      wii_game |->
        <<119, 105, 105, 95, 103, 97, 109, 101>>,
      controllers |->
        <<99, 111, 110, 116, 114, 111, 108, 108, 101, 114, 115>>,
      savestate |->
        <<115, 97, 118, 101, 115, 116, 97, 116, 101>>,
      vi_count |->
        <<118, 105, 95, 99, 111, 117, 110, 116>>,
      input_count |->
        <<105, 110, 112, 117, 116, 95, 99, 111, 117, 110, 116>>,
      lag_counter |->
        <<108, 97, 103, 95, 99, 111, 117, 110, 116, 101, 114>>,
      reserved1 |->
        <<114, 101, 115, 101, 114, 118, 101, 100, 49>>,
      rerecord_count |->
        <<114, 101, 114, 101, 99, 111, 114, 100, 95, 99, 111, 117, 110, 116>>,
      author |->
        <<97, 117, 116, 104, 111, 114>>,
      video_backend |->
        <<118, 105, 100, 101, 111, 95, 98, 97, 99, 107, 101, 110, 100>>,
      audio_emulator |->
        <<97, 117, 100, 105, 111, 95, 101, 109, 117, 108, 97, 116, 111, 114>>,
      md5 |->
        <<109, 100, 53>>,
      start_time |->
        <<115, 116, 97, 114, 116, 95, 116, 105, 109, 101>>,
      valid_config |->
        <<118, 97, 108, 105, 100, 95, 99, 111, 110, 102, 105, 103>>,
      idle_skipping |->
        <<105, 100, 108, 101, 95, 115, 107, 105, 112, 112, 105, 110, 103>>,
      dual_core |->
        <<100, 117, 97, 108, 95, 99, 111, 114, 101>>,
      progressive_scan |->
        <<112, 114, 111, 103, 114, 101, 115, 115, 105, 118, 101, 95, 115, 99, 97, 110>>,
      dsp_hle |->
        <<100, 115, 112, 95, 104, 108, 101>>,
      fast_disc |->
        <<102, 97, 115, 116, 95, 100, 105, 115, 99>>,
      cpu_core |->
        <<99, 112, 117, 95, 99, 111, 114, 101>>,
      efb_access |->
        <<101, 102, 98, 95, 97, 99, 99, 101, 115, 115>>,
      efb_copy |->
        <<101, 102, 98, 95, 99, 111, 112, 121>>,
      efb_to_texture |->
        <<101, 102, 98, 95, 116, 111, 95, 116, 101, 120, 116, 117, 114, 101>>,
      efb_copy_cache |->
        <<101, 102, 98, 95, 99, 111, 112, 121, 95, 99, 97, 99, 104, 101>>,
      emulate_format_changes |->
        <<101, 109, 117, 108, 97, 116, 101, 95, 102, 111, 114, 109, 97, 116, 95, 99, 104, 97, 110, 103, 101, 115>>,
      use_xfb |->
        <<117, 115, 101, 95, 120, 102, 98>>,
      use_real_xfb |->
        <<117, 115, 101, 95, 114, 101, 97, 108, 95, 120, 102, 98>>,
      memory_cards |->
        <<109, 101, 109, 111, 114, 121, 95, 99, 97, 114, 100, 115>>,
      memory_card_blank |->
        <<109, 101, 109, 111, 114, 121, 95, 99, 97, 114, 100, 95, 98, 108, 97, 110, 107>>,
      bongos_plugged |->
        <<98, 111, 110, 103, 111, 115, 95, 112, 108, 117, 103, 103, 101, 100>>,
      sync_gpu |->
        <<115, 121, 110, 99, 95, 103, 112, 117>>,
      netplay |->
        <<110, 101, 116, 112, 108, 97, 121>>,
      sysconf_pal60 |->
        <<115, 121, 115, 99, 111, 110, 102, 95, 112, 97, 108, 54, 48>>,
      reserved2 |->
        <<114, 101, 115, 101, 114, 118, 101, 100, 50>>,
      second_disc |->
        <<115, 101, 99, 111, 110, 100, 95, 100, 105, 115, 99>>,
      git_revision |->
        <<103, 105, 116, 95, 114, 101, 118, 105, 115, 105, 111, 110>>,
      dsp_irom_hash |->
        <<100, 115, 112, 95, 105, 114, 111, 109, 95, 104, 97, 115, 104>>,
      dsp_coef_hash |->
        <<100, 115, 112, 95, 99, 111, 101, 102, 95, 104, 97, 115, 104>>,
      tick_count |->
        <<116, 105, 99, 107, 95, 99, 111, 117, 110, 116>>,
      reserved3 |->
        <<114, 101, 115, 101, 114, 118, 101, 100, 51>> ]

\* The decimal digits of a number, as format!("{}", v) writes them.
RECURSIVE Decimal(_)
Decimal(v) ==
    IF v < 10 THEN <<48 + v>> ELSE Decimal(v \div 10) \o <<48 + (v % 10)>>

LowerHexChars == <<48, 49, 50, 51, 52, 53, 54, 55, 56, 57, 97, 98, 99, 100, 101, 102>>

\* serde_json's escape of one char inside a string literal.
JsonEscape(c) ==
    CASE c = 34 -> <<92, 34>>
      [] c = 92 -> <<92, 92>>
      [] c = 8 -> <<92, 98>>
      [] c = 12 -> <<92, 102>>
      [] c = 10 -> <<92, 110>>
      [] c = 13 -> <<92, 114>>
      [] c = 9 -> <<92, 116>>
      [] c < 32 /\ c \notin {8, 9, 10, 12, 13} ->
            <<92, 117, 48, 48, LowerHexChars[(c \div 16) + 1],
              LowerHexChars[(c % 16) + 1]>>
      [] OTHER -> Utf8Encode(c)

RECURSIVE JsonEscaped(_)
JsonEscaped(val) ==
    IF val = <<>> THEN <<>> ELSE JsonEscape(Head(val)) \o JsonEscaped(Tail(val))

\* A string literal.
JsonString(val) == <<34>> \o JsonEscaped(val) \o <<34>>

\* Serialize of one header field: the blobs go through the hex codec.
JsonValue(f, val) ==
    CASE f.kind = "str" -> JsonString(val)
      [] f.kind = "bool" ->
            IF val THEN <<116, 114, 117, 101>> ELSE <<102, 97, 108, 115, 101>>
      [] f.kind = "blob" -> JsonString(serialize(val))
      [] OTHER -> Decimal(val)

\* The members of the pretty-printed object from field i on.
RECURSIVE JsonMembers(_, _)
JsonMembers(hdr, i) ==
    IF i > Len(HeaderFields) THEN <<>>
    ELSE (IF i = 1 THEN <<10>> ELSE <<44, 10>>)
         \o <<32, 32>> \o JsonString(FieldKey[HeaderFields[i].name])
         \o <<58, 32>>
         \o JsonValue(HeaderFields[i], hdr[HeaderFields[i].name])
         \o JsonMembers(hdr, i + 1)

\* serde_json::to_writer_pretty(&mut self.inner, &dtm.header)
to_writer_pretty(hdr) == <<123>> \o JsonMembers(hdr, 1) \o <<10, 125>>

\* format_input!(line, val, upper, lower)
format_input(val, upper, lower) == IF val THEN upper ELSE lower

\* A field of three padded with zeros.
Format03(v) == Repeat(48, 3 - Len(Decimal(v))) \o Decimal(v)

\* format!("{:3}", v): right-aligned in a field of three.
Format3(v) == Repeat(32, 3 - Len(Decimal(v))) \o Decimal(v)

\* TextEncoder::write_controller_input: the line written.
write_controller_input(input) ==
    format_input(input.start, <<83, 32>>, <<115, 32>>)
    \o format_input(input.a, <<65, 32>>, <<97, 32>>)
    \o format_input(input.b, <<66, 32>>, <<98, 32>>)
    \o format_input(input.x, <<88, 32>>, <<120, 32>>)
    \o format_input(input.y, <<89, 32>>, <<121, 32>>)
    \o format_input(input.z, <<90, 32>>, <<122, 32>>)
    \o format_input(input.up, <<85, 32>>, <<117, 32>>)
    \o format_input(input.down, <<68, 32>>, <<100, 32>>)
    \o format_input(input.left, <<76, 32>>, <<108, 32>>)
    \o format_input(input.right, <<82, 32>>, <<114, 32>>)
    \o format_input(input.l, <<76, 84, 32>>, <<108, 116, 32>>)
    \o format_input(input.r, <<82, 84, 32>>, <<114, 116, 32>>)
    \o Format3(input.l_pressure) \o <<32>>
    \o Format3(input.r_pressure) \o <<32>>
    \o Format3(input.analog_x) \o <<32>>
    \o Format3(input.analog_y) \o <<32>>
    \o Format3(input.c_x) \o <<32>>
    \o Format3(input.c_y)
    \o format_input(input.change_disc, <<32, 67, 68>>, <<>>)
    \o format_input(input.reset, <<32, 82, 83, 84>>, <<>>)
    \o format_input(input.controller_connected, <<32, 67, 67>>, <<>>)
    \o format_input(input.reserved, <<32, 82, 83, 86>>, <<>>)
    \o <<10>>

RECURSIVE WriteFrames(_)
WriteFrames(frames) ==
    IF frames = <<>> THEN <<>>
    ELSE write_controller_input(Head(frames)) \o WriteFrames(Tail(frames))

\* TextEncoder::encode: the bytes written.
TextEncode(dtm) ==
    to_writer_pretty(dtm.header) \o <<10>> \o WriteFrames(dtm.controller_data)

---------------------------------------------------------------------------
(* The text form, read: serde_json's deserializer pulls single bytes from  *)
(* the LineCountRead, so it never reads past what it has parsed, except    *)
(* for the one byte it peeks at.                                           *)

\* A count of the carriage returns as well as the newlines.
NewlinesAndReturns(s, from, to) == Cardinality({i \in from..to : s[i] \in {10, 13}})

\* LineCountRead::read: the newlines among the bytes stream[from..to].
NewlinesIn(s, from, to) == Cardinality({i \in from..to : s[i] = 10})

JsonWs == {32, 10, 9, 13}

\* The position after the whitespace that follows position p.
RECURSIVE parse_whitespace(_, _)
parse_whitespace(s, p) ==
    IF p < Len(s) /\ s[p + 1] \in JsonWs THEN parse_whitespace(s, p + 1) ELSE p

HexValue(b) ==
    CASE b \in 48..57 -> b - 48
      [] b \in 65..70 -> b - 55
      [] b \in 97..102 -> b - 87
      [] OTHER -> -1

\* A value read up to position pos, or a failure having read up to pos.
JsonTok(type, val, p) == [ok |-> TRUE, type |-> type, val |-> val, pos |-> p]

JsonFail(p) == [ok |-> FALSE, type |-> "", val |-> <<>>, pos |-> p]

\* The four hex digits of a \u escape, at s[i..i+3].
decode_hex_escape(s, i) ==
    IF i + 3 > Len(s) \/ \E k \in 0..3 : HexValue(s[i + k]) < 0
    THEN [ok |-> FALSE, n |-> 0]
    ELSE [ok |-> TRUE,
          n |-> HexValue(s[i]) * 4096 + HexValue(s[i + 1]) * 256
                + HexValue(s[i + 2]) * 16 + HexValue(s[i + 3])]

EscOk(bytes, next) == [ok |-> TRUE, bytes |-> bytes, next |-> next]

EscFail == [ok |-> FALSE, bytes |-> <<>>, next |-> 0]

\* The escape whose letter is at s[i]: its bytes and the index after it.
parse_escape(s, i) ==
    IF i > Len(s) THEN EscFail
    ELSE CASE s[i] = 34 -> EscOk(<<34>>, i + 1)
           [] s[i] = 92 -> EscOk(<<92>>, i + 1)
           [] s[i] = 47 -> EscOk(<<47>>, i + 1)
           [] s[i] = 98 -> EscOk(<<8>>, i + 1)
           [] s[i] = 102 -> EscOk(<<12>>, i + 1)
           [] s[i] = 110 -> EscOk(<<10>>, i + 1)
           [] s[i] = 114 -> EscOk(<<13>>, i + 1)
           [] s[i] = 116 -> EscOk(<<9>>, i + 1)
           [] s[i] = 117 ->
                LET h == decode_hex_escape(s, i + 1) IN
                IF ~h.ok \/ h.n \in 56320..57343 THEN EscFail
                ELSE IF h.n \in 55296..56319 THEN
                    IF i + 6 <= Len(s) /\ s[i + 5] = 92 /\ s[i + 6] = 117 THEN
                        LET l == decode_hex_escape(s, i + 7) IN
                        IF l.ok /\ l.n \in 56320..57343
                        THEN EscOk(Utf8Encode(65536 + (h.n - 55296) * 1024
                                              + (l.n - 56320)), i + 11)
                        ELSE EscFail
                    ELSE EscFail
                ELSE EscOk(Utf8Encode(h.n), i + 5)
           [] OTHER -> EscFail

\* The bytes of a string literal from s[i] up to its closing quote.
RECURSIVE ScanString(_, _, _)
ScanString(s, i, acc) ==
    IF i > Len(s) THEN [ok |-> FALSE, bytes |-> acc, pos |-> Len(s)]
    ELSE IF s[i] = 34 THEN [ok |-> TRUE, bytes |-> acc, pos |-> i]
    ELSE IF s[i] = 92 THEN
        LET e == parse_escape(s, i + 1) IN
        IF e.ok THEN ScanString(s, e.next, acc \o e.bytes)
        ELSE [ok |-> FALSE, bytes |-> acc, pos |-> Min(Len(s), i + 1)]
    ELSE IF s[i] < 32 THEN [ok |-> FALSE, bytes |-> acc, pos |-> i]
    ELSE ScanString(s, i + 1, Append(acc, s[i]))

\* A string literal whose opening quote is s[p + 1].
parse_str(s, p) ==
    With(ScanString(s, p + 2, <<>>), LAMBDA r :
        IF ~r.ok THEN JsonFail(r.pos)
        ELSE With(from_utf8(r.bytes), LAMBDA d :
                IF d.ok THEN JsonTok("str", d.val, r.pos) ELSE JsonFail(r.pos)))

RECURSIVE ScanDigits(_, _, _)
ScanDigits(s, i, acc) ==
    IF i <= Len(s) /\ s[i] \in 48..57
    THEN ScanDigits(s, i + 1, acc * 10 + (s[i] - 48))
    ELSE [val |-> acc, pos |-> i - 1]

\* An unsigned integer whose first digit is s[p + 1]: no leading zero, and
\* a fraction or an exponent makes it a float, which no field accepts.
parse_integer(s, p) ==
    With(IF s[p + 1] = 48 THEN [val |-> 0, pos |-> p + 1]
         ELSE ScanDigits(s, p + 1, 0),
         LAMBDA d :
            IF d.pos < Len(s) /\ s[d.pos + 1] \in (48..57) \cup {46, 101, 69}
            THEN JsonFail(d.pos + 1)
            ELSE JsonTok("num", d.val, d.pos))

\* The literal word expected at s[p + 1..].
parse_ident(s, p, word, type, val) ==
    IF p + Len(word) <= Len(s) /\ \A k \in 1..Len(word) : s[p + k] = word[k]
    THEN JsonTok(type, val, p + Len(word))
    ELSE JsonFail(Min(Len(s), p + Len(word)))

\* One scalar value starting at s[p + 1]; an object, an array or a
\* negative number is no value of any header field, and no input here
\* has one under a key the struct ignores.
parse_value(s, p) ==
    IF p >= Len(s) THEN JsonFail(Len(s))
    ELSE CASE s[p + 1] = 34 -> parse_str(s, p)
           [] s[p + 1] \in 48..57 -> parse_integer(s, p)
           [] s[p + 1] = 116 -> parse_ident(s, p, <<116, 114, 117, 101>>, "bool", TRUE)
           [] s[p + 1] = 102 ->
                parse_ident(s, p, <<102, 97, 108, 115, 101>>, "bool", FALSE)
           [] s[p + 1] = 110 -> parse_ident(s, p, <<110, 117, 108, 108>>, "null", 0)
           [] OTHER -> JsonFail(p + 1)

\* The header field a key names, or 0 for a key the struct does not have.
FieldOfKey(key) ==
    IF \E i \in 1..Len(HeaderFields) : FieldKey[HeaderFields[i].name] = key
    THEN CHOOSE i \in 1..Len(HeaderFields) : FieldKey[HeaderFields[i].name] = key
    ELSE 0

\* Deserialize of one field from the value read: the blobs go through
\* visit_str, whose outcome may be an error or a panic.
FieldValue(f, v) ==
    CASE f.kind = "str" ->
            IF v.type = "str" THEN HexOk(v.val) ELSE HexErr("invalid type")
      [] f.kind = "bool" ->
            IF v.type = "bool" THEN HexOk(v.val) ELSE HexErr("invalid type")
      [] f.kind = "blob" ->
            IF v.type = "str" THEN visit_str(f.width, v.val)
            ELSE HexErr("invalid type")
      [] f.kind = "u8" ->
            IF v.type = "num" /\ v.val <= 255 THEN HexOk(v.val)
            ELSE HexErr("invalid value")
      [] OTHER ->
            IF v.type = "num" THEN HexOk(v.val) ELSE HexErr("invalid type")

\* What one turn of the derived visit_map loop leaves: the fields so far,
\* the deserializer's position and the bytes pulled from the reader.
StepMore(hdr, c, p) == [tag |-> "more", header |-> hdr, cursor |-> c, pos |-> p]

StepEnd(hdr, p) == [tag |-> "end", header |-> hdr, cursor |-> p, pos |-> p]

StepErr(p) == [tag |-> "err", header |-> <<>>, cursor |-> p, pos |-> p]

StepPanic(p) == [tag |-> "panic", header |-> <<>>, cursor |-> p, pos |-> p]

\* MapAccess::next_key_seed: where the next key's opening quote is peeked,
\* or the closing brace, or a syntax error.
next_key(s, c, first) ==
    LET q == parse_whitespace(s, c) IN
    IF q >= Len(s) THEN [tag |-> "err", pos |-> Len(s)]
    ELSE IF s[q + 1] = 125 THEN [tag |-> "end", pos |-> q + 1]
    ELSE IF first THEN
        IF s[q + 1] = 34 THEN [tag |-> "key", pos |-> q]
        ELSE [tag |-> "err", pos |-> q + 1]
    ELSE IF s[q + 1] = 44 THEN
        LET k == parse_whitespace(s, q + 1) IN
        IF k < Len(s) /\ s[k + 1] = 34 THEN [tag |-> "key", pos |-> k]
        ELSE [tag |-> "err", pos |-> Min(Len(s), k + 1)]
    ELSE [tag |-> "err", pos |-> q + 1]

HasField(hdr, name) == name \in {n \in FieldNames : n \in DOMAIN hdr}

\* MapAccess::next_value_seed for field i (0: ignored) once the value v
\* has been read: the number's end is known from the byte peeked after it.
next_value(s, hdr, i, v) ==
    LET peek == IF v.ok /\ v.type = "num" /\ v.pos < Len(s) THEN 1 ELSE 0 IN
    IF ~v.ok THEN StepErr(v.pos)
    ELSE IF i = 0 THEN StepMore(hdr, v.pos, v.pos + peek)
    ELSE With(FieldValue(HeaderFields[i], v), LAMBDA d :
            CASE d.tag = "Ok" ->
                    StepMore(hdr @@ (HeaderFields[i].name :> d.bytes),
                             v.pos, v.pos + peek)
              [] d.tag = "Panic" -> StepPanic(v.pos)
              [] OTHER -> StepErr(v.pos + peek))

\* The member whose key has been read: a duplicate key is an error before
\* its value is looked at; then the colon, then the value.
visit_member(s, hdr, key) ==
    LET i == FieldOfKey(key.val)
        q == parse_whitespace(s, key.pos)
    IN
    IF ~key.ok THEN StepErr(key.pos)
    ELSE IF i # 0 /\ HasField(hdr, HeaderFields[i].name) THEN StepErr(key.pos)
    ELSE IF q >= Len(s) THEN StepErr(Len(s))
    ELSE IF s[q + 1] # 58 THEN StepErr(q + 1)
    ELSE With(parse_value(s, parse_whitespace(s, q + 1)), LAMBDA v :
            next_value(s, hdr, i, v))

\* The derived Deserialize of DtmHeader, one member at a time. An unknown
\* key's value is ignored; a field missing at the closing brace is an
\* error.
visit_map(s, c, first, hdr) ==
    With(next_key(s, c, first), LAMBDA k :
        IF k.tag = "err" THEN StepErr(k.pos)
        ELSE IF k.tag = "end" THEN
            IF \A n \in FieldNames : HasField(hdr, n)
            THEN StepEnd(hdr, k.pos) ELSE StepErr(k.pos)
        ELSE With(parse_str(s, k.pos), LAMBDA key : visit_member(s, hdr, key)))

---------------------------------------------------------------------------
(* The text form, read: one frame line.                                    *)

\* char::is_whitespace
WhiteSpace ==
    (9..13) \cup {32, 133, 160, 5760, 8232, 8233, 8239, 8287, 12288}
    \cup (8192..8202)

RECURSIVE SplitFrom(_, _, _, _)
SplitFrom(val, i, tok, out) ==
    LET closed == IF tok = <<>> THEN out ELSE Append(out, tok) IN
    IF i > Len(val) THEN closed
    ELSE IF val[i] \in WhiteSpace THEN SplitFrom(val, i + 1, <<>>, closed)
    ELSE SplitFrom(val, i + 1, Append(tok, val[i]), out)

\* The tokens found piece by piece: a piece ends at a white-space char.
RECURSIVE SplitChunks(_)
SplitChunks(val) ==
    LET cuts == {p \in ((Len(val) \div 2) + 1)..Len(val) : val[p] \in WhiteSpace} IN
    IF Len(val) <= 16 \/ cuts = {} THEN SplitFrom(val, 1, <<>>, <<>>)
    ELSE With(CHOOSE p \in cuts : \A q \in cuts : p <= q, LAMBDA p :
            SplitChunks(SubSeq(val, 1, p - 1))
            \o SplitChunks(SubSeq(val, p + 1, Len(val))))

\* str::split_whitespace, collected.
split_whitespace(val) == SplitChunks(val)

RECURSIVE ParseDigits(_, _, _)
ParseDigits(tok, i, acc) ==
    IF i > Len(tok) THEN [ok |-> TRUE, val |-> acc]
    ELSE IF tok[i] \notin 48..57 \/ acc * 10 + (tok[i] - 48) > 255
    THEN [ok |-> FALSE, val |-> 0]
    ELSE ParseDigits(tok, i + 1, acc * 10 + (tok[i] - 48))

\* A parse into a signed byte: nothing above 127.
parse_i8(tok) ==
    IF tok = <<>> \/ tok = <<43>> THEN [ok |-> FALSE, val |-> 0]
    ELSE With(ParseDigits(tok, IF tok[1] = 43 THEN 2 ELSE 1, 0), LAMBDA r :
            IF r.ok /\ r.val <= 127 THEN r ELSE [ok |-> FALSE, val |-> 0])

\* str::parse::<u8>: an optional plus sign, then decimal digits, at most 255.
parse_u8(tok) ==
    IF tok = <<>> \/ tok = <<43>> THEN [ok |-> FALSE, val |-> 0]
    ELSE ParseDigits(tok, IF tok[1] = 43 THEN 2 ELSE 1, 0)

TokOk(val) == [err |-> "", val |-> val]

TokErr(reason) == [err |-> reason, val |-> 0]

\* A get_token! that reports an exhausted line as an invalid button.
get_token_as_invalid(tokens, i) ==
    IF i <= Len(tokens) THEN TokOk(tokens[i]) ELSE TokErr("InvalidButtonError")

\* get_token!(tokens.next(), line)
get_token(tokens, i) ==
    IF i <= Len(tokens) THEN TokOk(tokens[i]) ELSE TokErr("MissingTokenError")

\* A read_input! that takes every token but the upper-case code as unset.
read_input_lenient(tokens, i, upper, lower) ==
    IF get_token(tokens, i).err # "" THEN get_token(tokens, i)
    ELSE TokOk(tokens[i] = upper)

\* read_input!(line, tokens.next(), upper, lower)
read_input(tokens, i, upper, lower) ==
    IF get_token(tokens, i).err # "" THEN get_token(tokens, i)
    ELSE IF tokens[i] = upper THEN TokOk(TRUE)
    ELSE IF tokens[i] = lower THEN TokOk(FALSE)
    ELSE TokErr("InvalidButtonError")

\* get_token!(tokens.next(), line).parse::<u8>().map_err(...)
read_axis(tokens, i) ==
    IF get_token(tokens, i).err # "" THEN get_token(tokens, i)
    ELSE IF parse_u8(tokens[i]).ok THEN TokOk(parse_u8(tokens[i]).val)
    ELSE TokErr("ParseIntError")

\* The upper-case and the lower-case code of the twelve buttons, in order.
ButtonCodes ==
    << <<83>>, <<65>>, <<66>>, <<88>>, <<89>>, <<90>>, <<85>>, <<68>>, <<76>>,
       <<82>>, <<76, 84>>, <<82, 84>> >>

ButtonCodesLower ==
    << <<115>>, <<97>>, <<98>>, <<120>>, <<121>>, <<122>>, <<117>>, <<100>>,
       <<108>>, <<114>>, <<108, 116>>, <<114, 116>> >>

CD == <<67, 68>>

RST == <<82, 83, 84>>

CC == <<67, 67>>

RSV == <<82, 83, 86>>

FrameOk(input, ln) == [tag |-> "Ok", kind |-> "", frame |-> input, line |-> ln]

FrameErr(reason, ln) ==
    [tag |-> "Err", kind |-> reason, frame |-> <<>>, line |-> ln]

\* The body of read_controller_input on the tokens of a line.
read_tokens(tokens, ln) ==
    LET req == [i \in 1..18 |->
                  IF i <= 12
                  THEN read_input(tokens, i, ButtonCodes[i], ButtonCodesLower[i])
                  ELSE read_axis(tokens, i)]
        bad == {i \in 1..18 : req[i].err # ""}
        rest == {tokens[i] : i \in 19..Len(tokens)}
    IN
    IF bad # {} THEN FrameErr(req[CHOOSE i \in bad : \A j \in bad : i <= j].err, ln)
    ELSE IF ~(rest \subseteq {CD, RST, CC, RSV})
    THEN FrameErr("InvalidButtonError", ln)
    ELSE FrameOk(
        [ start |-> req[1].val, a |-> req[2].val, b |-> req[3].val,
          x |-> req[4].val, y |-> req[5].val, z |-> req[6].val,
          up |-> req[7].val, down |-> req[8].val, left |-> req[9].val,
          right |-> req[10].val, l |-> req[11].val, r |-> req[12].val,
          change_disc |-> CD \in rest, reset |-> RST \in rest,
          controller_connected |-> CC \in rest, reserved |-> RSV \in rest,
          l_pressure |-> req[13].val, r_pressure |-> req[14].val,
          analog_x |-> req[15].val, analog_y |-> req[16].val,
          c_x |-> req[17].val, c_y |-> req[18].val ],
        ln + 1)

\* InputReader::read_controller_input on a line the BufReader yielded
\* (line_result.ok) or failed to yield; ln is self.line on entry, and the
\* line field of the outcome is self.line on return, which is also the
\* line an error carries.
read_controller_input(line_result, ln) ==
    With(line_result, LAMBDA res :
        IF ~res.ok THEN FrameErr("IoError", ln)
        ELSE With(split_whitespace(res.val), LAMBDA tokens :
                read_tokens(tokens, ln)))

---------------------------------------------------------------------------
(* TextEncoder::encode and TextDecoder::decode, step by step. pos is the   *)
(* number of bytes the LineCountRead has returned and lines its counter;   *)
(* cursor is how far the reader on top of it (the deserializer, then the   *)
(* BufReader's lines) has consumed; line is InputReader.line.              *)

\* The sizes a read of the wrapped reader may return when avail bytes are
\* left: all of them, or a short read.
ReadSizes(avail) == {avail, Min(ShortRead, avail)}

\* A counter that also counts the line the closing brace is on.
AddLinesReadAndOne(ln, lines_read) == ln + lines_read + 1

\* self.input_reader.line += self.inner.lines_read()
AddLinesRead(ln, lines_read) == ln + lines_read

\* A Dtm keeping only as many frames as the header declares.
TextDtmByCount(hdr, frames) ==
    Ok([header |-> hdr,
        controller_data |-> Take(frames, Min(Len(frames), hdr.input_count))])

\* The Dtm a successful text decode returns: the header as deserialized.
TextDtm(hdr, frames) == Ok([header |-> hdr, controller_data |-> frames])

\* The end of the next line of the BufReader: its newline, or the end of
\* the stream.
LineEnd ==
    IF \E i \in (cursor + 1)..pos : stream[i] = 10
    THEN CHOOSE i \in (cursor + 1)..pos :
            /\ stream[i] = 10
            /\ \A j \in (cursor + 1)..(i - 1) : stream[j] # 10
    ELSE Len(stream)

\* BufRead::lines: the line without its newline and the carriage return
\* before it, as a String, or an error when it is not UTF-8.
NextLine ==
    LET raw == [i \in 1..(LineEnd - cursor) |-> stream[cursor + i]]
        n == Len(raw)
        cut == IF n >= 2 /\ raw[n] = 10 /\ raw[n - 1] = 13 THEN 2
               ELSE IF n >= 1 /\ raw[n] = 10 THEN 1 ELSE 0
    IN from_utf8(Take(raw, n - cut))

\* A whole line is buffered, or the stream has ended in an unfinished one.
LineReady ==
    \/ \E i \in (cursor + 1)..pos : stream[i] = 10
    \/ pos = Len(stream) /\ cursor < pos

BinaryVarsUnchanged == UNCHANGED <<origin, movie, hex, frame, original>>

TextEncoderEncode ==
    /\ pc = "encode"
    /\ stream' = TextEncode(movie)
    /\ encoded' = Ok(NoDtm)
    /\ pc' = "deserialize"
    /\ UNCHANGED <<pos, header, controller_data, result, lines, line, cursor>>
    /\ BinaryVarsUnchanged

\* deserialize_struct: the opening brace. serde also accepts a struct
\* written as an array of its values in order; no input here has a
\* well-formed one.
TextDeserializeOpen ==
    /\ pc = "deserialize"
    /\ LET q == parse_whitespace(stream, 0)
           open == q < Len(stream) /\ stream[q + 1] = 123
       IN
        /\ pos' = Min(Len(stream), q + 1)
        /\ cursor' = pos'
        /\ lines' = lines + NewlinesIn(stream, pos + 1, pos')
        /\ pc' = IF open THEN "first" ELSE "done"
        /\ result' = IF open THEN result ELSE Err("JsonError")
    /\ UNCHANGED <<stream, header, controller_data, encoded, line>>
    /\ BinaryVarsUnchanged

\* One member of the header object, or its closing brace, after which
\* decode adds the newlines counted so far to the InputReader's line.
TextDeserializeMember ==
    /\ pc \in {"first", "member"}
    /\ \E r \in {visit_map(stream, cursor, pc = "first", header)} :
        /\ pos' = Max(pos, r.pos)
        /\ cursor' = r.cursor
        /\ lines' = lines + NewlinesIn(stream, pos + 1, pos')
        /\ header' = IF r.tag \in {"more", "end"} THEN r.header ELSE header
        /\ line' = IF r.tag = "end" THEN AddLinesRead(line, lines') ELSE line
        /\ pc' = CASE r.tag = "more" -> "member"
                   [] r.tag = "end" -> "skip"
                   [] OTHER -> "done"
        /\ result' = CASE r.tag = "err" -> Err("JsonError")
                       [] r.tag = "panic" -> Panic("unwrap on None")
                       [] OTHER -> result
    /\ UNCHANGED <<stream, controller_data, encoded>>
    /\ BinaryVarsUnchanged

\* The BufReader fills its buffer through the LineCountRead.
TextFill ==
    /\ pc \in {"skip", "lines"}
    /\ ~LineReady
    /\ pos < Len(stream)
    /\ \E n \in ReadSizes(Len(stream) - pos) :
        /\ pos' = pos + n
        /\ lines' = lines + NewlinesIn(stream, pos + 1, pos + n)
    /\ UNCHANGED <<stream, header, controller_data, result, encoded, line,
                   cursor, pc>>
    /\ BinaryVarsUnchanged

\* lines().skip(1): the first line is dropped, whatever it holds.
TextSkipLine ==
    /\ pc = "skip"
    /\ LineReady
    /\ cursor' = LineEnd
    /\ pc' = "lines"
    /\ UNCHANGED <<stream, pos, header, controller_data, result, encoded,
                   lines, line>>
    /\ BinaryVarsUnchanged

\* One turn of the loop over the remaining lines.
TextReadLine ==
    /\ pc = "lines"
    /\ LineReady
    /\ \E r \in {read_controller_input(NextLine, line)} :
        /\ cursor' = LineEnd
        /\ line' = r.line
        /\ IF r.tag = "Ok"
           THEN /\ controller_data' = Append(controller_data, r.frame)
                /\ UNCHANGED <<result, pc>>
           ELSE /\ result' = ParseErr(r.kind, r.line)
                /\ pc' = "done"
                /\ UNCHANGED controller_data
    /\ UNCHANGED <<stream, pos, header, encoded, lines>>
    /\ BinaryVarsUnchanged

\* The lines are exhausted.
TextDecodeReturn ==
    /\ pc \in {"skip", "lines"}
    /\ pos = Len(stream)
    /\ cursor = pos
    /\ result' = TextDtm(header, controller_data)
    /\ pc' = "done"
    /\ UNCHANGED <<stream, pos, header, controller_data, encoded, lines, line,
                   cursor>>
    /\ BinaryVarsUnchanged

---------------------------------------------------------------------------
(* Inputs of the text transcoder: movies to encode, and text files laid    *)
(* out by hand, with the header object on one line or on many and with a   *)
(* probe line among well-formed frame lines.                               *)

RECURSIVE CompactMembers(_, _)
CompactMembers(hdr, i) ==
    IF i > Len(HeaderFields) THEN <<>>
    ELSE (IF i = 1 THEN <<>> ELSE <<44>>)
         \o JsonString(FieldKey[HeaderFields[i].name]) \o <<58>>
         \o JsonValue(HeaderFields[i], hdr[HeaderFields[i].name])
         \o CompactMembers(hdr, i + 1)

\* The header object on a single line.
CompactHeader(hdr) == <<123>> \o CompactMembers(hdr, 1) \o <<125>>

HeaderLayouts ==
    { CompactHeader(DefaultHeader),
      <<10, 32>> \o CompactHeader(DefaultHeader),
      to_writer_pretty(DefaultHeader) }

\* What follows the closing brace on its line.
BraceLineRests == { <<10>>, <<32, 35, 13, 10>> }

GoodLine(i) ==
    write_controller_input(IF i % 2 = 1 THEN MixedButtons ELSE AllButtons)

RECURSIVE GoodLines(_)
GoodLines(n) == IF n = 0 THEN <<>> ELSE GoodLines(n - 1) \o GoodLine(n)

\* Probe lines, without their newline: well-formed ones, an empty one, and
\* one for each way a frame line can fail.
ProbeLines ==
    { Take(GoodLine(1), Len(GoodLine(1)) - 1),
      Take(GoodLine(2), Len(GoodLine(2)) - 1) \o <<13>>,
      <<>>,
      Take(GoodLine(1), 45),
      <<83, 32, 97, 32, 120>>,
      Take(GoodLine(1), 26) \o <<50, 53, 54, 32>> \o Drop(GoodLine(1), 30),
      Take(GoodLine(2), Len(GoodLine(2)) - 1) \o <<32, 99, 100>>,
      <<83, 32, 255, 254>> }

\* The frame lines of a file: good lines, the probe as line j, and perhaps
\* a good line after it; the last line may lack its newline.
FrameTexts ==
    { <<>> } \cup
    UNION { { GoodLines(j - 1) \o probe \o tail :
                probe \in ProbeLines,
                tail \in {<<>>, <<10>>, <<10>> \o GoodLine(j + 1)} } :
            j \in 1..MaxLines }

\* Header objects the deserializer refuses, or ones with more in them than
\* the fields.
OddHeaders ==
    LET rest == Tail(CompactHeader(DefaultHeader))
        md5 == JsonString(FieldKey.md5) \o <<58>>
    IN { Take(CompactHeader(DefaultHeader), 40),
         <<>>,
         <<91, 49, 93>>,
         <<123, 125>>,
         Take(CompactHeader(DefaultHeader), Len(rest) - 37) \o <<125>>,
         <<123>> \o JsonString(<<101, 120, 116, 114, 97>>) \o <<58, 55, 10, 44>> \o rest,
         <<123>> \o JsonString(FieldKey.game_id) \o <<58>>
            \o JsonString(<<71>>) \o <<44>> \o rest,
         <<123>> \o JsonString(FieldKey.wii_game) \o <<58, 49, 44>> \o rest,
         <<123>> \o JsonString(FieldKey.controllers) \o <<58, 50, 53, 54, 44>> \o rest,
         <<123>> \o md5 \o JsonString(<<122, 122>>) \o <<44>> \o rest,
         <<123>> \o md5 \o JsonString(Repeat(48, 31) \o <<233>>) \o <<44>> \o rest,
         <<123>> \o md5 \o JsonString(Repeat(48, 30) \o <<233>>) \o <<44>> \o rest }

TextStreams ==
    { h \o r \o f : h \in HeaderLayouts, r \in BraceLineRests, f \in FrameTexts }
    \cup { h \o <<10>> \o GoodLine(1) : h \in OddHeaders }

InitTextMovie ==
    /\ pc = "encode"
    /\ origin = "movie"
    /\ movie \in MovieSamples
    /\ stream = <<>>
    /\ hex = NoHex
    /\ frame = NoFrame
    /\ InitDecoder

InitTextFile ==
    /\ pc = "deserialize"
    /\ origin = "file"
    /\ movie = NoDtm
    /\ stream \in TextStreams
    /\ hex = NoHex
    /\ frame = NoFrame
    /\ InitDecoder

InitText == InitTextMovie \/ InitTextFile

NextText ==
    \/ TextEncoderEncode
    \/ TextDeserializeOpen
    \/ TextDeserializeMember
    \/ TextFill
    \/ TextSkipLine
    \/ TextReadLine
    \/ TextDecodeReturn

SpecText == InitText /\ [][NextText]_vars

---------------------------------------------------------------------------
(* Properties of the text transcoder.                                      *)

TextDecodeDone == pc = "done" /\ result.tag # "None"

\* The decode ended in a ControllerInputParseError.
FrameLineFailed ==
    /\ TextDecodeDone
    /\ result.tag = "Err"
    /\ result.kind \in {"IoError", "MissingTokenError", "InvalidButtonError",
                        "ParseIntError"}

\* The 1-indexed number of the line that byte i of the stream lies on.
LineNumberAt(s, i) == NewlinesIn(s, 1, i - 1) + 1

\* The closing brace of the header object: the first one, as no sample
\* has a brace inside a string or a nested object.
ClosingBrace ==
    LET braces == {i \in 1..Len(stream) : stream[i] = 125} IN
    CHOOSE i \in braces : \A j \in braces : i <= j

\* The lines of the stream after the line that holds the closing brace.
FrameLineCount ==
    LET rest == NewlinesIn(stream, ClosingBrace + 1, Len(stream))
                + (IF stream[Len(stream)] # 10 THEN 1 ELSE 0)
    IN Max(0, rest - 1)

\* C2: encoding a movie as text and decoding that text succeeds and gives
\* the movie's frames and the movie's header with input_count set to the
\* number of frames decoded.
C2_TextRoundTrip ==
    (origin = "movie" /\ TextDecodeDone) =>
        /\ result.tag = "Ok"
        /\ result.dtm.controller_data = movie.controller_data
        /\ result.dtm.header =
              [movie.header EXCEPT
                  !.input_count = Len(result.dtm.controller_data)]

\* C4: a frame line's parse error carries the 1-indexed number of that
\* line in the stream.
C4_ExactLineNumber ==
    FrameLineFailed => result.line = LineNumberAt(stream, cursor)

\* C7: a text decode that succeeds returns as many frames as there are
\* lines after the header's line, and the text of a movie decodes to all
\* of the movie's frames whatever input_count its header declares.
C7_FrameCountFromLines ==
    TextDecodeDone =>
        /\ result.tag = "Ok" =>
              Len(result.dtm.controller_data) = FrameLineCount
        /\ origin = "movie" =>
              /\ result.tag = "Ok"
              /\ Len(result.dtm.controller_data) = Len(movie.controller_data)

\* A decoded movie with frames whose header declares fewer of them.
C7_Witness ==
    /\ TextDecodeDone
    /\ result.tag = "Ok"
    /\ Len(result.dtm.controller_data) = MaxFrames
    /\ result.dtm.header.input_count < MaxFrames

\* The index of the last newline before byte i of the stream, or 0.
PrevNewline(s, i) ==
    LET before == {j \in 1..(i - 1) : s[j] = 10} IN
    IF before = {} THEN 0 ELSE CHOOSE j \in before : \A k \in before : k <= j

\* The line that ends at byte i, without its newline and the carriage
\* return before it.
LineEndingAt(s, i) ==
    LET from == PrevNewline(s, i) + 1
        to == IF s[i] # 10 THEN i
              ELSE IF i - 1 >= from /\ s[i - 1] = 13 THEN i - 2 ELSE i - 1
    IN [k \in 1..(to - from + 1) |-> s[from + k - 1]]

\* The lines after the closing brace's line that hold at least one byte.
NonEmptyFrameLines ==
    LET first == IF \E i \in ClosingBrace..Len(stream) : stream[i] = 10
                 THEN CHOOSE i \in ClosingBrace..Len(stream) :
                        /\ stream[i] = 10
                        /\ \A j \in ClosingBrace..(i - 1) : stream[j] # 10
                 ELSE Len(stream)
        ends == {i \in (first + 1)..Len(stream) :
                    stream[i] = 10 \/ i = Len(stream)}
    IN {i \in ends : LineEndingAt(stream, i) # <<>>}

\* C11: an empty line after the header's line gives no error and no frame:
\* a frame line that fails is not empty, and a decode that succeeds has one
\* frame for each non-empty line.
C11_EmptyLinesIgnored ==
    TextDecodeDone =>
        /\ FrameLineFailed => LineEndingAt(stream, cursor) # <<>>
        /\ result.tag = "Ok" =>
              Len(result.dtm.controller_data) = Cardinality(NonEmptyFrameLines)

---------------------------------------------------------------------------
(* The hex bytestring codec on its own: a blob is serialized and the text  *)
(* deserialized, or a text is deserialized and the blob serialized again.  *)

ByteSamples == {0, 9, 10, 16, 154, 175, 255}

\* Blobs of n bytes: one byte everywhere but at one place.
BlobSamples(n) ==
    { [i \in 1..n |-> IF i = p THEN b1 ELSE b0] :
        p \in 1..n, b0 \in ByteSamples, b1 \in ByteSamples }

ToLower(c) == IF c >= 65 /\ c <= 90 THEN c + 32 ELSE c

ToUpper(c) == IF c >= 97 /\ c <= 122 THEN c - 32 ELSE c

LowerCased(text) == [i \in DOMAIN text |-> ToLower(text[i])]

UpperCased(text) == [i \in DOMAIN text |-> ToUpper(text[i])]

\* Upper-case hex texts of n bytes.
HexBases(n) == {serialize([i \in 1..n |-> b]) : b \in {9, 171, 255}}

\* Chars that are no hex digit: G Z @ / : space g ` e-acute euro emoji
NonHexChars == {71, 90, 64, 47, 58, 32, 103, 96, 233, 8364, 128512}

\* Hex texts as a hand-edited header may hold them: upper-case, lower-case
\* everywhere or at one place, too short or too long, with one char that
\* is no hex digit, with multi-byte chars at the end.
HexTexts(n) ==
    HexBases(n)
    \cup { LowerCased(t) : t \in HexBases(n) }
    \cup { [t EXCEPT ![p] = ToLower(t[p])] : t \in HexBases(n), p \in 1..(2 * n) }
    \cup { Take(t, (2 * n) - d) : t \in HexBases(n), d \in 1..MaxLenDelta }
    \cup { t \o Repeat(48, d) : t \in HexBases(n), d \in 1..MaxLenDelta }
    \cup { <<>> }
    \cup { [t EXCEPT ![p] = c] :
             t \in HexBases(n), p \in {1, 2, 2 * n - 1, 2 * n}, c \in NonHexChars }
    \cup { Take(t, (2 * n) - Utf8Len(c)) \o <<c>> :
             t \in HexBases(n), c \in {233, 8364, 128512} }
    \cup { Take(t, (2 * n) - 4) \o <<233, 233>> : t \in HexBases(n) }

InitHexBytes ==
    /\ pc = "serialize"
    /\ origin = "bytes"
    /\ \E type \in BlobTypes : \E bytes \in BlobSamples(BlobLen(type)) :
          hex = [NoHex EXCEPT !.type = type, !.bytes = bytes]

InitHexText ==
    /\ pc = "deserialize"
    /\ origin = "text"
    /\ \E type \in BlobTypes : \E text \in HexTexts(BlobLen(type)) :
          hex = [NoHex EXCEPT !.type = type, !.text = text]

InitHex ==
    /\ InitHexBytes \/ InitHexText
    /\ frame = NoFrame
    /\ movie = NoDtm
    /\ stream = <<>>
    /\ InitDecoder

HexVarsUnchanged ==
    UNCHANGED <<origin, movie, stream, pos, header, controller_data, result,
                lines, line, cursor, encoded, frame, original>>

\* Serialize for a bytestring type.
HexSerialize ==
    /\ pc = "serialize"
    /\ hex' = [hex EXCEPT !.text = serialize(hex.bytes)]
    /\ pc' = "deserialize"
    /\ HexVarsUnchanged

\* Deserialize for a bytestring type: the visitor's visit_str.
HexDeserialize ==
    /\ pc = "deserialize"
    /\ hex' = [hex EXCEPT !.out = visit_str(BlobLen(hex.type), hex.text)]
    /\ pc' = "visited"
    /\ HexVarsUnchanged

\* The blob a text gave is serialized again.
HexReserialize ==
    /\ pc = "visited"
    /\ hex.out.tag = "Ok"
    /\ hex' = [hex EXCEPT !.again = serialize(hex.out.bytes)]
    /\ pc' = "done"
    /\ HexVarsUnchanged

NextHex == HexSerialize \/ HexDeserialize \/ HexReserialize

SpecHex == InitHex /\ [][NextHex]_vars

---------------------------------------------------------------------------
(* Claims about the hex bytestring codec (specification SpecHex).          *)

UpperHexChars == <<48, 49, 50, 51, 52, 53, 54, 55, 56, 57, 65, 66, 67, 68, 69, 70>>

IsUpperHex(c) == \E k \in DOMAIN UpperHexChars : UpperHexChars[k] = c

IsHexAnyCase(c) == IsUpperHex(ToUpper(c))

HexVisited == pc \in {"visited", "done"}

\* C8 as stated: a text of exactly 2N hex digits in any mix of letter
\* cases is decoded, and encoding the result gives the text upper-cased.
C8_HexDecodeAnyCase ==
    ( /\ origin = "text"
      /\ HexVisited
      /\ Len(hex.text) = 2 * BlobLen(hex.type)
      /\ \A i \in DOMAIN hex.text : IsHexAnyCase(hex.text[i]) ) =>
        /\ hex.out.tag = "Ok"
        /\ pc = "done" => hex.again = UpperCased(hex.text)

\* C8 amended: hex decode takes upper-case digits only. A text of exactly
\* 2N digits from 0-9A-F is decoded and encoding the result gives the text
\* back; a text of 2N hex digits with a lower-case letter among them is
\* rejected with the invalid-character error.
C8_HexDecodeUpperCase ==
    ( /\ origin = "text"
      /\ HexVisited
      /\ Len(hex.text) = 2 * BlobLen(hex.type)
      /\ \A i \in DOMAIN hex.text : IsHexAnyCase(hex.text[i]) ) =>
        IF \A i \in DOMAIN hex.text : IsUpperHex(hex.text[i])
        THEN /\ hex.out.tag = "Ok"
             /\ pc = "done" => hex.again = hex.text
        ELSE hex.out = [tag |-> "Err", msg |-> "invalid character", bytes |-> <<>>]

C8_Witness ==
    /\ origin = "text"
    /\ pc = "visited"
    /\ Len(hex.text) = 2 * BlobLen(hex.type)
    /\ \A i \in DOMAIN hex.text : IsHexAnyCase(hex.text[i])
    /\ \E i \in DOMAIN hex.text : ~IsUpperHex(hex.text[i])
    /\ \E i \in DOMAIN hex.text : hex.text[i] \in 65..70
    /\ hex.out.tag = "Err"

\* C9: a text whose length is not 2N, or that holds a char that is no hex
\* digit (multi-byte chars included), makes the hex decoder return a
\* decode error: it never panics and never returns a blob.
C9_BadHexIsErr ==
    ( /\ origin = "text"
      /\ HexVisited
      /\ \/ StrLen(hex.text) # 2 * BlobLen(hex.type)
         \/ \E i \in DOMAIN hex.text : ~IsHexAnyCase(hex.text[i]) ) =>
        hex.out.tag = "Err"

\* C10: the hex encoder writes exactly 2N chars of 0-9A-F, the high nibble
\* of each byte first, and the hex decoder gives the blob back.
C10_HexRoundTrip ==
    (origin = "bytes" /\ pc # "serialize") =>
        /\ Len(hex.text) = 2 * BlobLen(hex.type)
        /\ \A i \in DOMAIN hex.bytes :
              /\ hex.text[2 * i - 1] = UpperHexChars[(hex.bytes[i] \div 16) + 1]
              /\ hex.text[2 * i] = UpperHexChars[(hex.bytes[i] % 16) + 1]
        /\ HexVisited =>
              (hex.out.tag = "Ok" /\ hex.out.bytes = hex.bytes)

C10_Witness ==
    /\ origin = "bytes"
    /\ pc = "done"
    /\ hex.out.tag = "Ok"
    /\ \E i \in DOMAIN hex.bytes : hex.bytes[i] = 175
    /\ \E i \in DOMAIN hex.bytes : hex.bytes[i] = 9
    /\ Len(hex.bytes) = 11

---------------------------------------------------------------------------
(* The frame codec on its own: one ControllerInput through                 *)
(* encode_controller_input, decode_controller_input, write_controller_input*)
(* and read_controller_input; one 8-byte record through the decoder and    *)
(* back; one line of text through read_controller_input.                   *)

\* The flags in the order of their bits, and the axes in record order.
FlagNames ==
    << "start", "a", "b", "x", "y", "z", "up", "down", "left", "right", "l",
       "r", "change_disc", "reset", "controller_connected", "reserved" >>

AxisNames ==
    << "l_pressure", "r_pressure", "analog_x", "analog_y", "c_x", "c_y" >>

Range(s) == {s[i] : i \in DOMAIN s}

\* The ControllerInput with the flags of pressed set and the given axes.
InputOf(pressed, axes) ==
    [ n \in Range(FlagNames) \cup Range(AxisNames) |->
        IF n \in Range(FlagNames) THEN n \in pressed
        ELSE axes[CHOOSE i \in 1..6 : AxisNames[i] = n] ]

AxisValues == {0, 1, 9, 10, 99, 100, 128, 255}

ExampleAxes == <<5, 10, 128, 130, 0, 255>>

AxisSamples ==
    { [i \in 1..6 |-> IF i = k THEN v ELSE w] :
        k \in 1..6, v \in AxisValues, w \in {0, 255} }
    \cup {ExampleAxes}

\* Every combination of the flags of one flag byte, alone and with every
\* flag of the other byte set.
FlagSets ==
    LET low == {FlagNames[i] : i \in 1..8}
        high == {FlagNames[i] : i \in 9..16}
    IN SUBSET low \cup SUBSET high
       \cup {s \cup high : s \in SUBSET low}
       \cup {s \cup low : s \in SUBSET high}

InputSamples ==
    { InputOf(s, ExampleAxes) : s \in FlagSets }
    \cup { InputOf(s, a) : s \in {{}, {"a", "reserved"}}, a \in AxisSamples }

\* 8-byte records: every value of each flag byte, every sample of the axes.
RecordSamples ==
    { <<b, o>> \o ExampleAxes : b \in 0..255, o \in {0, 90, 255} }
    \cup { <<o, b>> \o ExampleAxes : b \in 0..255, o \in {0, 165, 255} }
    \cup { <<3, 0>> \o a : a \in AxisSamples }

\* The tokens of a frame line: button codes, axis tokens, trailing tokens.
ButtonTokens(pressed) ==
    [ i \in 1..12 |->
        IF FlagNames[i] \in pressed THEN ButtonCodes[i]
        ELSE ButtonCodesLower[i] ]

Padded(v) == Repeat(48, 3 - Len(Decimal(v))) \o Decimal(v)

AxisTokenSamples ==
    { [i \in 1..6 |-> Decimal(ExampleAxes[i])],
      [i \in 1..6 |-> Padded(ExampleAxes[i])],
      [i \in 1..6 |-> Decimal(255)],
      [i \in 1..6 |-> <<48>>] }

TrailingTokens == {CD, RST, CC, RSV}

TrailingSeqs == UNION {[1..n -> TrailingTokens] : n \in 0..3}

ButtonSets ==
    {{}, {FlagNames[i] : i \in 1..12}}
    \cup {{FlagNames[i]} : i \in 1..12}

WellFormedTokens ==
    { ButtonTokens({"start", "l"}) \o ax \o t :
        ax \in {[i \in 1..6 |-> Decimal(ExampleAxes[i])]},
        t \in TrailingSeqs }
    \cup { ButtonTokens(s) \o a \o t :
             s \in ButtonSets, a \in AxisTokenSamples, t \in {<<>>, <<RSV, CD>>} }

\* Tokens no button position accepts at position i, and tokens no axis
\* position accepts.
BadButtonTokens(i) ==
    { ButtonCodes[(i % 12) + 1], ButtonCodesLower[(i % 12) + 1],
      ButtonCodes[i] \o ButtonCodes[i], <<48>>, <<63>>,
      <<ButtonCodes[i][1] + 32>> \o Tail(ButtonCodes[i]) \o <<84>>,
      <<ButtonCodes[i][1], 116>> }

BadAxisTokens ==
    { <<50, 53, 54>>, <<45, 49>>, <<97, 98, 99>>, <<49, 46, 53>>,
      <<48, 120, 49, 48>>, <<57, 57, 57>>, <<43>>, <<49, 48, 48, 48>>,
      <<51, 48, 48>>, <<49, 50, 97>> }

BadTrailingTokens ==
    { <<99, 100>>, <<114, 115, 116>>, <<99, 99>>, <<114, 115, 118>>,
      <<67, 68, 88>>, <<67>>, <<83>>, <<49>> }

BaseTokens == ButtonTokens({"a", "up", "r"}) \o [i \in 1..6 |-> Decimal(ExampleAxes[i])]

TruncatedTokens ==
    { Take(b, k) : b \in {BaseTokens, ButtonTokens({}) \o [i \in 1..6 |-> <<48>>]},
                   k \in 0..17 }

InvalidTokens ==
    UNION { { [BaseTokens EXCEPT ![i] = t] : t \in BadButtonTokens(i) } :
            i \in 1..12 }
    \cup { [BaseTokens EXCEPT ![i] = t] : i \in 13..18, t \in BadAxisTokens }
    \cup { BaseTokens \o pre \o <<t>> \o post :
             t \in BadTrailingTokens, pre \in {<<>>, <<CD>>},
             post \in {<<>>, <<RST>>} }
    \cup { Take([BaseTokens EXCEPT ![i] = <<63>>], i) : i \in {1, 12, 13} }
    \cup { Take([BaseTokens EXCEPT ![i] = <<63>>], 15) : i \in {1, 12, 13} }

\* Axis tokens with a sign: +5, +255, -0, -5, +256.
SignedTokens ==
    { [BaseTokens EXCEPT ![i] = t] :
        i \in {13, 18},
        t \in { <<43, 53>>, <<43, 50, 53, 53>>, <<45, 48>>, <<45, 53>>,
                <<43, 50, 53, 54>> } }

TokenSamples ==
    WellFormedTokens \cup TruncatedTokens \cup InvalidTokens \cup SignedTokens

\* Between two tokens: a space, a tab, a no-break space; two spaces in the
\* lines that carry no trailing token.
Separators(tokens) ==
    {<<32>>, <<9>>, <<160>>} \cup (IF Len(tokens) <= 18 THEN {<<32, 32>>} ELSE {})

RECURSIVE Join(_, _)
Join(tokens, sep) ==
    IF tokens = <<>> THEN <<>>
    ELSE IF Len(tokens) = 1 THEN tokens[1]
    ELSE tokens[1] \o sep \o Join(Tail(tokens), sep)

\* What BufRead::lines yields for the bytes of one line: the bytes without
\* the newline and the carriage return before it, as a String.
LineOf(raw) ==
    LET n == Len(raw)
        cut == IF n >= 2 /\ raw[n] = 10 /\ raw[n - 1] = 13 THEN 2
               ELSE IF n >= 1 /\ raw[n] = 10 THEN 1 ELSE 0
    IN from_utf8(Take(raw, n - cut))

InitFrameInput ==
    /\ pc = "pack"
    /\ origin = "input"
    /\ \E input \in InputSamples : frame = [NoFrame EXCEPT !.input = input]

InitFrameRecord ==
    /\ pc = "unpack"
    /\ origin = "record"
    /\ \E bytes \in RecordSamples : frame = [NoFrame EXCEPT !.bytes = bytes]

InitFrameLine ==
    /\ pc = "read"
    /\ origin = "line"
    /\ \E tokens \in TokenSamples : \E sep \in Separators(tokens) :
          frame = [NoFrame EXCEPT
                     !.tokens = tokens,
                     !.text = as_bytes(Join(tokens, sep)) \o <<10>>]

InitFrame ==
    /\ InitFrameInput \/ InitFrameRecord \/ InitFrameLine
    /\ movie = NoDtm
    /\ stream = <<>>
    /\ hex = NoHex
    /\ InitDecoder

FrameVarsUnchanged ==
    UNCHANGED <<origin, movie, stream, pos, header, controller_data, result,
                lines, cursor, encoded, hex, original>>

\* DtmEncoder::encode_controller_input on the input.
FramePack ==
    /\ pc = "pack"
    /\ frame' = [frame EXCEPT !.bytes = encode_controller_input(frame.input)]
    /\ pc' = "unpack"
    /\ UNCHANGED line
    /\ FrameVarsUnchanged

\* DtmDecoder::decode_controller_input on the 8 bytes.
FrameUnpack ==
    /\ pc = "unpack"
    /\ frame' = [frame EXCEPT !.unpacked = decode_controller_input(frame.bytes)]
    /\ pc' = IF origin = "record" THEN "repack" ELSE "write"
    /\ UNCHANGED line
    /\ FrameVarsUnchanged

\* DtmEncoder::encode_controller_input on what the decoder returned.
FrameRepack ==
    /\ pc = "repack"
    /\ frame' = [frame EXCEPT !.again = encode_controller_input(frame.unpacked)]
    /\ pc' = "done"
    /\ UNCHANGED line
    /\ FrameVarsUnchanged

\* TextEncoder::write_controller_input on the input.
FrameWrite ==
    /\ pc = "write"
    /\ frame' = [frame EXCEPT !.text = write_controller_input(frame.input)]
    /\ pc' = "read"
    /\ UNCHANGED line
    /\ FrameVarsUnchanged

\* InputReader::read_controller_input on the line of the text.
FrameRead ==
    /\ pc = "read"
    /\ \E r \in {read_controller_input(LineOf(frame.text), line)} :
        /\ frame' = [frame EXCEPT !.parsed = r]
        /\ line' = r.line
    /\ pc' = "done"
    /\ FrameVarsUnchanged

NextFrame ==
    \/ FramePack
    \/ FrameUnpack
    \/ FrameRepack
    \/ FrameWrite
    \/ FrameRead

SpecFrame == InitFrame /\ [][NextFrame]_vars

---------------------------------------------------------------------------
(* Claims about the frame codec.                                           *)

FrameUnpacked == origin = "input" /\ pc \in {"write", "read", "done"}

FrameRepacked == origin = "record" /\ pc = "done"

\* C13: decode_controller_input returns the ControllerInput whose 8 bytes
\* encode_controller_input wrote, and encode_controller_input writes back
\* the 8-byte record decode_controller_input read, reserved bit included.
C13_PackingInverse ==
    /\ FrameUnpacked =>
        /\ Len(frame.bytes) = 8
        /\ frame.unpacked = frame.input
    /\ FrameRepacked =>
        /\ Len(frame.again) = 8
        /\ frame.again = frame.bytes

C13_Witness ==
    /\ FrameRepacked
    /\ frame.bytes[1] = 165
    /\ frame.bytes[2] \div 128 = 1
    /\ frame.unpacked.reserved
    /\ frame.again = frame.bytes

FrameDecoded == origin = "record" /\ pc \in {"repack", "done"}

Bit(byte, i) == (byte \div (2 ^ i)) % 2 = 1

\* C14: decode_controller_input gives bit i of byte 0 to the i-th of start,
\* a, b, x, y, z, up, down, bit i of byte 1 to the i-th of left, right, l, r,
\* change_disc, reset, controller_connected, reserved, and bytes 2..7 to
\* l_pressure, r_pressure, analog_x, analog_y, c_x, c_y; flag bytes 0x03,
\* 0x00 with axes 5,10,128,130,0,255 give start and a only.
C14_BitAssignment ==
    FrameDecoded =>
        /\ \A i \in 0..7 :
            /\ frame.unpacked[FlagNames[i + 1]] = Bit(frame.bytes[1], i)
            /\ frame.unpacked[FlagNames[i + 9]] = Bit(frame.bytes[2], i)
        /\ \A i \in 1..6 : frame.unpacked[AxisNames[i]] = frame.bytes[i + 2]
        /\ frame.bytes = <<3, 0, 5, 10, 128, 130, 0, 255>> =>
            frame.unpacked =
                [ start |-> TRUE, a |-> TRUE, b |-> FALSE, x |-> FALSE,
                  y |-> FALSE, z |-> FALSE, up |-> FALSE, down |-> FALSE,
                  left |-> FALSE, right |-> FALSE, l |-> FALSE, r |-> FALSE,
                  change_disc |-> FALSE, reset |-> FALSE,
                  controller_connected |-> FALSE, reserved |-> FALSE,
                  l_pressure |-> 5, r_pressure |-> 10, analog_x |-> 128,
                  analog_y |-> 130, c_x |-> 0, c_y |-> 255 ]

C14_Witness ==
    /\ FrameDecoded
    /\ frame.bytes = <<3, 0, 5, 10, 128, 130, 0, 255>>
    /\ frame.unpacked.start
    /\ frame.unpacked.a
    /\ ~frame.unpacked.b
    /\ frame.unpacked.c_y = 255

FrameParsed == origin = "line" /\ pc = "done"

\* The value of a token of decimal digits.
RECURSIVE DigitsValue(_)
DigitsValue(tok) ==
    IF tok = <<>> THEN 0
    ELSE 10 * DigitsValue(SubSeq(tok, 1, Len(tok) - 1)) + (tok[Len(tok)] - 48)

IsByteToken(tok) ==
    /\ tok # <<>>
    /\ \A i \in DOMAIN tok : tok[i] \in 48..57
    /\ DigitsValue(tok) <= 255

\* S A B X Y Z U D L R LT RT
UpperCodes ==
    << <<83>>, <<65>>, <<66>>, <<88>>, <<89>>, <<90>>, <<85>>, <<68>>, <<76>>,
       <<82>>, <<76, 84>>, <<82, 84>> >>

LowerCode(i) == [k \in DOMAIN UpperCodes[i] |-> UpperCodes[i][k] + 32]

\* CD RST CC RSV, in the order of change_disc, reset, controller_connected,
\* reserved.
OptionalCodes == << <<67, 68>>, <<82, 83, 84>>, <<67, 67>>, <<82, 83, 86>> >>

WellFormedLine(tokens) ==
    /\ Len(tokens) >= 18
    /\ \A i \in 1..12 : tokens[i] \in {UpperCodes[i], LowerCode(i)}
    /\ \A i \in 13..18 : IsByteToken(tokens[i])
    /\ \A i \in 19..Len(tokens) : tokens[i] \in Range(OptionalCodes)

\* C15: a line of the twelve button codes in order, each in upper or lower
\* case, six decimal tokens in 0..255 and any sequence of CD, RST, CC, RSV
\* is read as a frame: a button is set exactly when its code is upper-case,
\* the axes are the numbers in order, and each optional flag is set exactly
\* when its token occurs, in any order and any number of times.
C15_WellFormedLineParses ==
    FrameParsed /\ WellFormedLine(frame.tokens) =>
        /\ frame.parsed.tag = "Ok"
        /\ \A i \in 1..12 :
            frame.parsed.frame[FlagNames[i]] = (frame.tokens[i] = UpperCodes[i])
        /\ \A i \in 1..6 :
            frame.parsed.frame[AxisNames[i]] = DigitsValue(frame.tokens[i + 12])
        /\ \A i \in 1..4 :
            frame.parsed.frame[FlagNames[i + 12]] =
                (\E k \in 19..Len(frame.tokens) : frame.tokens[k] = OptionalCodes[i])

C15_Witness ==
    /\ FrameParsed
    /\ WellFormedLine(frame.tokens)
    /\ Len(frame.tokens) = 21
    /\ frame.tokens[19] = <<82, 83, 86>>
    /\ frame.tokens[20] = <<67, 68>>
    /\ frame.tokens[21] = <<82, 83, 86>>
    /\ frame.tokens[16] = <<49, 51, 48>>
    /\ frame.parsed.tag = "Ok"
    /\ frame.parsed.frame.reserved
    /\ frame.parsed.frame.change_disc
    /\ ~frame.parsed.frame.reset

\* The required tokens that are present are all valid.
ValidPrefix(tokens) ==
    /\ \A i \in 1..Min(12, Len(tokens)) :
        tokens[i] \in {UpperCodes[i], LowerCode(i)}
    /\ \A i \in 13..Min(18, Len(tokens)) : IsByteToken(tokens[i])

\* C16: a line that ends before its 18 required tokens, the present ones
\* being valid, fails with MissingTokenError, wherever it ends.
C16_MissingToken ==
    FrameParsed /\ Len(frame.tokens) < 18 /\ ValidPrefix(frame.tokens) =>
        /\ frame.parsed.tag = "Err"
        /\ frame.parsed.kind = "MissingTokenError"

C16_Witness ==
    /\ FrameParsed
    /\ Len(frame.tokens) = 17
    /\ ValidPrefix(frame.tokens)
    /\ frame.parsed.tag = "Err"
    /\ frame.parsed.kind = "MissingTokenError"

\* An optional sign and then decimal digits.
IsIntegerToken(tok) ==
    /\ tok # <<>>
    /\ LET digits == IF tok[1] \in {43, 45} THEN Tail(tok) ELSE tok IN
        /\ digits # <<>>
        /\ \A i \in DOMAIN digits : digits[i] \in 48..57

IntegerValue(tok) ==
    IF tok[1] = 45 THEN 0 - DigitsValue(Tail(tok))
    ELSE IF tok[1] = 43 THEN DigitsValue(Tail(tok))
    ELSE DigitsValue(tok)

NotAByte(tok) == ~IsIntegerToken(tok) \/ IntegerValue(tok) \notin 0..255

\* Some present token is not one its position admits.
HasInvalidToken(tokens) ==
    \/ \E i \in 1..Min(12, Len(tokens)) :
        tokens[i] \notin {UpperCodes[i], LowerCode(i)}
    \/ \E i \in 13..Min(18, Len(tokens)) : NotAByte(tokens[i])
    \/ \E i \in 19..Len(tokens) : tokens[i] \notin Range(OptionalCodes)

\* C17: a line with a button token that is neither code of its position, an
\* axis token that is not a number or not in 0..255, or a trailing token
\* that is not CD, RST, CC or RSV is refused: a frame parse failure and no
\* frame.
C17_InvalidTokenRejected ==
    FrameParsed /\ HasInvalidToken(frame.tokens) =>
        /\ frame.parsed.tag = "Err"
        /\ frame.parsed.kind \in
            {"InvalidButtonError", "ParseIntError", "MissingTokenError"}
        /\ frame.parsed.frame = <<>>
        /\ line = 0

C17_Witness ==
    /\ FrameParsed
    /\ Len(frame.tokens) = 19
    /\ frame.tokens[19] = <<99, 100>>
    /\ ~HasInvalidToken(SubSeq(frame.tokens, 1, 18))
    /\ frame.parsed.tag = "Err"
    /\ frame.parsed.kind = "InvalidButtonError"

FrameWritten == origin = "input" /\ pc \in {"read", "done"}

\* v in decimal, right-aligned with spaces in a field of three.
RightAligned3(v) ==
    << IF v >= 100 THEN 48 + (v \div 100) ELSE 32,
       IF v >= 10 THEN 48 + ((v \div 10) % 10) ELSE 32,
       48 + (v % 10) >>

RECURSIVE ButtonsText(_, _)
ButtonsText(input, i) ==
    IF i > 12 THEN <<>>
    ELSE (IF input[FlagNames[i]] THEN UpperCodes[i] ELSE LowerCode(i))
         \o <<32>> \o ButtonsText(input, i + 1)

RECURSIVE AxesText(_, _)
AxesText(input, i) ==
    RightAligned3(input[AxisNames[i]])
    \o (IF i = 6 THEN <<>> ELSE <<32>> \o AxesText(input, i + 1))

RECURSIVE OptionalText(_, _)
OptionalText(input, i) ==
    IF i > 4 THEN <<>>
    ELSE (IF input[FlagNames[i + 12]] THEN <<32>> \o OptionalCodes[i] ELSE <<>>)
         \o OptionalText(input, i + 1)

---------------------------------------------------------------------------
(* The two decoders on files: DtmDecoder::decode on the binary files and   *)
(* TextDecoder::decode on the text files.                                  *)

InitDecode == InitFile \/ InitTextFile

\* A read of the reader under DtmDecoder returns an error: read_exact,
\* read_u8 and the other reads hand it on and the ? returns it.
DtmReadFails ==
    /\ pc \in {"magic", "field", "frames"}
    /\ pc = "frames" => Len(controller_data) < header.input_count
    /\ result' = Err("IoError")
    /\ pc' = "done"
    /\ UNCHANGED <<origin, movie, stream, pos, header, controller_data, encoded>>
    /\ TextVarsUnchanged

\* A read of the reader under LineCountRead returns an error, which the ?
\* of LineCountRead::read returns before anything is counted. Under the
\* deserializer it ends the decode as a JsonError; under the BufReader the
\* line iterator yields it in place of a line, after the bytes buffered so
\* far have been consumed: skip(1) drops it as it drops the first line, and
\* read_controller_input returns it as an IoError.
TextReadFails ==
    /\ pc \in {"deserialize", "first", "member", "skip", "lines"}
    /\ pc \in {"skip", "lines"} => ~LineReady
    /\ IF pc \in {"deserialize", "first", "member"}
       THEN /\ result' = Err("JsonError")
            /\ pc' = "done"
            /\ UNCHANGED <<cursor, line>>
       ELSE IF pc = "skip"
       THEN /\ pc' = "lines"
            /\ cursor' = pos
            /\ UNCHANGED <<result, line>>
       ELSE \E r \in {read_controller_input([ok |-> FALSE, val |-> <<>>], line)} :
            /\ result' = ParseErr(r.kind, r.line)
            /\ line' = r.line
            /\ pc' = "done"
            /\ cursor' = pos
    /\ UNCHANGED <<stream, pos, lines, header, controller_data, encoded>>
    /\ BinaryVarsUnchanged

NextDecode ==
    \/ DtmDecodeMagic
    \/ DtmDecodeField
    \/ DtmDecodeFrame
    \/ DtmDecodeReturn
    \/ DtmReadFails
    \/ TextDeserializeOpen
    \/ TextDeserializeMember
    \/ TextFill
    \/ TextSkipLine
    \/ TextReadLine
    \/ TextDecodeReturn
    \/ TextReadFails

SpecDecode == InitDecode /\ [][NextDecode]_vars

\* The call has failed: it returned an Err or it panicked.
Failed(r) == r.tag \in {"Err", "Panic"}

\* C20: in both decoders the first error ends the call: a step in which a
\* read fails, like every step that meets an error, returns with the error
\* and no Movie, and after it nothing more is read from the stream,
\* nothing more is decoded and the outcome stays.
C20_AllOrNothing ==
    [][ /\ (DtmReadFails \/ TextReadFails) => Failed(result')
        /\ Failed(result') =>
            /\ pc' = "done"
            /\ result'.dtm = NoDtm
        /\ Failed(result) =>
            UNCHANGED <<result, pos, cursor, lines, line, header,
                        controller_data, pc>>
        /\ pc = "done" => UNCHANGED <<result, pos, cursor>> ]_vars

\* A call of TextDecoder::decode is under way.
TextDecoding == pc \in {"deserialize", "first", "member", "skip", "lines"}

\* The 0x0A bytes among the first n bytes of the stream.
LineFeeds(n) == Cardinality({i \in 1..n : stream[i] = 10})

\* C22: after every read of LineCountRead its counter is the number of
\* 0x0A bytes among the bytes it has returned so far, which are the bytes
\* of the wrapped reader in their order; a failed read returns nothing and
\* leaves the counter as it was; and the value added to the frame line
\* counter is the count reached when the header object has been read, up
\* to its closing brace.
C22_NewlineCounter ==
    [][ TextDecoding =>
        /\ lines' = LineFeeds(pos')
        /\ pos' >= pos
        /\ pos' <= Len(stream)
        /\ stream' = stream
        /\ TextReadFails => (lines' = lines /\ pos' = pos)
        /\ (pc \in {"first", "member"} /\ pc' = "skip") =>
            /\ stream[pos'] = 125
            /\ line' = line + LineFeeds(pos')
            /\ line = 0 ]_vars

C22_Witness ==
    /\ pc = "lines"
    /\ stream[1] = 123
    /\ controller_data = <<>>
    /\ line >= 2
    /\ lines > line
    /\ pos < Len(stream)
    /\ lines = LineFeeds(pos)

\* The newline bytes the header reader consumed: those up to the closing
\* brace of the header object.
HeaderLineFeeds == LineFeeds(ClosingBrace)

\* C24: InputReader.line is 0 while the header object is being read, is
\* set to the number of newline bytes consumed by then when the object
\* ends, grows by exactly 1 in a step that parses a frame line and in no
\* other step, and never shrinks; so during the loop it is that number
\* plus the frames parsed so far, and this is the line a frame parse
\* failure carries.
C24_LineCounter ==
    [][ TextDecoding =>
        /\ line' >= line
        /\ pc \in {"deserialize", "first", "member"} =>
            /\ line = 0
            /\ line' = IF pc' = "skip" THEN HeaderLineFeeds ELSE 0
        /\ pc \in {"skip", "lines"} =>
            /\ line = HeaderLineFeeds + Len(controller_data)
            /\ line' = line + Len(controller_data') - Len(controller_data)
            /\ Len(controller_data') - Len(controller_data) \in {0, 1}
            /\ TextReadLine \/ line' = line
            /\ result'.tag = "Err" =>
                /\ result'.line = HeaderLineFeeds + Len(controller_data)
                /\ controller_data' = controller_data
                /\ line' = line ]_vars

\* A frame line failed to parse after a header of several lines and at
\* least one parsed frame line.
C24_Witness ==
    /\ pc = "done"
    /\ stream # <<>>
    /\ stream[1] = 123
    /\ result.tag = "Err"
    /\ result.kind \in {"MissingTokenError", "InvalidButtonError", "ParseIntError"}
    /\ controller_data # <<>>
    /\ result.line = HeaderLineFeeds + Len(controller_data)
    /\ HeaderLineFeeds >= 2
    /\ line = result.line

=============================================================================
